---- MODULE Spec2Model ----
(***************************************************************************)
(* Model of the DDR generate-validate-repair pipeline                      *)
(* (backend/llm_engine.py, backend/schemas.py, backend/config.py).         *)
(*                                                                         *)
(* Text.  A Python str is a sequence of tokens.  A token is either a       *)
(* whitespace character (" ", "\n"), a punctuation character ("{", "}",   *)
(* ",") or a run of text that contains no whitespace and no punctuation    *)
(* the program looks at (a word, or a literal of the program such as the   *)
(* corrective suffix).  The evidence texts are written character by        *)
(* character.  str.strip(), str.lower(), str.split(), str.replace() and    *)
(* slicing are computed on that sequence: strip drops the leading and      *)
(* trailing whitespace tokens, lower maps every token to its lower-case    *)
(* form.                                                                   *)
(*                                                                         *)
(* JSON.  A value produced by json.loads is a tagged record: str, num,     *)
(* bool, null, list (a sequence of values) or dict (a function from key    *)
(* strings to values).                                                     *)
(***************************************************************************)
EXTENDS Integers, Sequences, FiniteSets, TLC

VARIABLES
    \* ---- generate_ddr (one request) ----
    api_key_set,      \* OPENROUTER_API_KEY is set to a non-blank value
    inspection_text,  \* argument of generate_ddr
    thermal_text,     \* argument of generate_ddr
    pc,               \* position of generate_ddr
    attempt,          \* loop variable of "for attempt in range(2)"
    retry_suffix,     \* local retry_suffix
    last_error,       \* local last_error
    calls,            \* prompts handed to _call_openrouter, in order
    responses,        \* what requests.post did in each call, in order
    outcome,          \* what generate_ddr returned or raised
    \* ---- a pure function under test ----
    fn_pc,            \* which function was applied last
    fn_in,            \* its input
    fn_out,           \* the outputs obtained so far, in order
    \* ---- POST /generate-ddr and GET /download-report (main.py) ----
    uploads,          \* the files of UPLOAD_DIR: path -> content
    outputs,          \* the files of OUTPUT_DIR: file name -> content
    clock,            \* datetime.now(), in whole seconds
    handlers          \* per request: position and locals of its handler

vars == <<api_key_set, inspection_text, thermal_text, pc, attempt, retry_suffix,
          last_error, calls, responses, outcome, fn_pc, fn_in, fn_out,
          uploads, outputs, clock, handlers>>

ep_vars == <<uploads, outputs, clock, handlers>>

req_vars == <<api_key_set, inspection_text, thermal_text, pc, attempt, retry_suffix,
              last_error, calls, responses, outcome>>

fn_vars == <<fn_pc, fn_in, fn_out>>

-----------------------------------------------------------------------------
(* Text *)

Whitespace == {" ", "\n"}

\* str.lower() on one token
LowerToken(a) ==
    CASE a = "N/A" -> "n/a"
      [] a = "NA" -> "na"
      [] a = "Na" -> "na"
      [] a = "Null" -> "null"
      [] a = "NULL" -> "null"
      [] a = "NONE" -> "none"
      [] a = "None" -> "none"
      [] a = "Unknown" -> "unknown"
      [] a = "Not" -> "not"
      [] a = "NOT" -> "not"
      [] a = "Provided" -> "provided"
      [] a = "Missing" -> "missing"
      [] a = "Available" -> "available"
      [] a = "AVAILABLE" -> "available"
      [] a = "General" -> "general"
      [] a = "GENERAL" -> "general"
      [] a = "Kitchen" -> "kitchen"
      [] a = "Severe" -> "severe"
      [] a = "Low" -> "low"
      [] a = "LOW" -> "low"
      [] a = "Medium" -> "medium"
      [] a = "Moderate" -> "moderate"
      [] a = "High" -> "high"
      [] a = "HIGH" -> "high"
      [] a = "Certain" -> "certain"
      [] a = "Rising" -> "rising"
      [] a = "Penetrating" -> "penetrating"
      [] a = "Plumbing" -> "plumbing"
      [] a = "Leakage" -> "leakage"
      [] a = "Damp" -> "damp"
      [] a = "(Probable)" -> "(probable)"
      [] a = "Mold" -> "mold"
      [] a = "Seepage" -> "seepage"
      [] OTHER -> a

\* str.lower()
Lower(s) == [i \in 1..Len(s) |-> LowerToken(s[i])]

\* str.lstrip()
RECURSIVE LStrip(_)
LStrip(s) ==
    IF s # <<>> /\ Head(s) \in Whitespace THEN LStrip(Tail(s)) ELSE s

\* str.rstrip()
RECURSIVE RStrip(_)
RStrip(s) ==
    IF s # <<>> /\ s[Len(s)] \in Whitespace THEN RStrip(SubSeq(s, 1, Len(s) - 1)) ELSE s

\* str.strip()
Strip(s) == RStrip(LStrip(s))

NotAvailable == <<"Not", " ", "Available">>

\* the alias set without "unknown"
MISSING_ALIASES_without_unknown ==
    { <<>>, <<"n/a">>, <<"na">>, <<"null">>, <<"none">>,
      <<"not", " ", "provided">>, <<"missing">> }

MISSING_ALIASES ==
    { <<>>, <<"n/a">>, <<"na">>, <<"null">>, <<"none">>, <<"unknown">>,
      <<"not", " ", "provided">>, <<"missing">> }

-----------------------------------------------------------------------------
(* JSON values *)

JStr(s) == [t |-> "str", str |-> s]
JNum(n) == [t |-> "num", num |-> n]
JBool(b) == [t |-> "bool", bool |-> b]
JNull == [t |-> "null"]
JList(l) == [t |-> "list", list |-> l]
JDict(d) == [t |-> "dict", dict |-> d]

EmptyDict == [k \in {} |-> JNull]

\* dict.get(key) is not None / key in dict
HasKey(d, k) == k \in DOMAIN d

\* d[key] = value
SetItem(d, k, value) == [x \in (DOMAIN d) \cup {k} |-> IF x = k THEN value ELSE d[x]]

\* d.pop(key, None)
Pop(d, k) == [x \in (DOMAIN d) \ {k} |-> d[x]]

Sentinel == JStr(NotAvailable)

Range(l) == { l[i] : i \in 1..Len(l) }

-----------------------------------------------------------------------------
(* Value Normalizer *)

\* the str branch of _normalize_missing_markers with the alias test made on
\* the untrimmed text
NormalizeStr_untrimmed_test(s) ==
    IF Lower(s) \in MISSING_ALIASES THEN Sentinel ELSE JStr(Strip(s))

\* the str branch of _normalize_missing_markers
NormalizeStr(s) ==
    LET cleaned == Strip(s)
    IN  IF Lower(cleaned) \in MISSING_ALIASES THEN Sentinel ELSE JStr(cleaned)

RECURSIVE _normalize_missing_markers(_)
_normalize_missing_markers(value) ==
    CASE value.t = "dict" ->
            JDict([k \in DOMAIN value.dict |-> _normalize_missing_markers(value.dict[k])])
      [] value.t = "list" ->
            JList([i \in 1..Len(value.list) |-> _normalize_missing_markers(value.list[i])])
      [] value.t = "null" -> Sentinel
      [] value.t = "str" -> NormalizeStr(value.str)
      [] OTHER -> value

-----------------------------------------------------------------------------
(* Schema Coercer *)

\* a dict key or a one-word str
W(word) == <<word>>

Property_Issue_Summary == W("Property_Issue_Summary")
Area_Wise_Observations == W("Area_Wise_Observations")
Probable_Root_Cause == W("Probable_Root_Cause")
Severity_Assessment == W("Severity_Assessment")
Recommended_Actions == W("Recommended_Actions")
Risk_Implications == W("Risk_Implications")
Additional_Notes == W("Additional_Notes")
Missing_or_Unclear_Information == W("Missing_or_Unclear_Information")

EXPECTED_TOP_LEVEL_KEYS ==
    { Property_Issue_Summary, Area_Wise_Observations, Probable_Root_Cause,
      Severity_Assessment, Recommended_Actions, Risk_Implications,
      Additional_Notes, Missing_or_Unclear_Information }

inspection_observation == W("inspection_observation")
thermal_observation == W("thermal_observation")
merged_finding == W("merged_finding")
dampness_type == W("dampness_type")
inspection_evidence_ref == W("inspection_evidence_ref")
thermal_evidence_ref == W("thermal_evidence_ref")
conflict_note == W("conflict_note")

\* the keys backfilled in every area, llm_engine.py lines 132-138
AreaFields ==
    { inspection_observation, thermal_observation, merged_finding, dampness_type,
      inspection_evidence_ref, thermal_evidence_ref, conflict_note }

overall_severity == W("overall_severity")
reasoning == W("reasoning")
Confidence_Level == W("Confidence_Level")
Confidence_Reasoning == W("Confidence_Reasoning")

\* the keys backfilled in Severity_Assessment, llm_engine.py lines 108-111
SeverityFields == { overall_severity, reasoning, Confidence_Level, Confidence_Reasoning }

General == W("General")

\* _build_default_structure() with "" for the text fields
_build_default_structure_blank ==
    [k \in EXPECTED_TOP_LEVEL_KEYS |->
        CASE k = Area_Wise_Observations -> JDict(EmptyDict)
          [] k = Severity_Assessment -> JDict([f \in SeverityFields |-> Sentinel])
          [] k = Missing_or_Unclear_Information -> JList(<<Sentinel>>)
          [] OTHER -> JStr(<<>>)]

\* the dict payload returned by _build_default_structure()
_build_default_structure ==
    [k \in EXPECTED_TOP_LEVEL_KEYS |->
        CASE k = Area_Wise_Observations -> JDict(EmptyDict)
          [] k = Severity_Assessment -> JDict([f \in SeverityFields |-> Sentinel])
          [] k = Missing_or_Unclear_Information -> JList(<<Sentinel>>)
          [] OTHER -> Sentinel]

\* a run of d.setdefault(k, "Not Available") over the keys of a set
SetDefaults(d, keys) ==
    [k \in (DOMAIN d) \cup keys |-> IF HasKey(d, k) THEN d[k] ELSE Sentinel]

\* lines 97-99: copy the expected keys the input has over the defaults
CopyExpected(completed, normalized) ==
    [k \in (DOMAIN completed) \cup (EXPECTED_TOP_LEVEL_KEYS \cap DOMAIN normalized) |->
        IF k \in EXPECTED_TOP_LEVEL_KEYS /\ HasKey(normalized, k)
        THEN normalized[k] ELSE completed[k]]

\* lines 101-102
ForceAreaMapping(completed) ==
    IF completed[Area_Wise_Observations].t # "dict"
    THEN SetItem(completed, Area_Wise_Observations, JDict(EmptyDict))
    ELSE completed

\* lines 104-112, the mapping replaced by the defaults whatever it holds
ForceSeverity_always_default(completed) ==
    SetItem(completed, Severity_Assessment, _build_default_structure[Severity_Assessment])

\* lines 104-112
ForceSeverity(completed) ==
    IF completed[Severity_Assessment].t # "dict"
    THEN SetItem(completed, Severity_Assessment, _build_default_structure[Severity_Assessment])
    ELSE LET severity == SetDefaults(completed[Severity_Assessment].dict, SeverityFields)
         IN  SetItem(completed, Severity_Assessment,
                     _normalize_missing_markers(JDict(severity)))

\* lines 114-117
ForceMissingInfo(completed) ==
    IF completed[Missing_or_Unclear_Information].t # "list"
    THEN SetItem(completed, Missing_or_Unclear_Information, JList(<<Sentinel>>))
    ELSE IF completed[Missing_or_Unclear_Information].list = <<>>
         THEN SetItem(completed, Missing_or_Unclear_Information, JList(<<Sentinel>>))
         ELSE completed

\* one iteration of the loop of lines 120-139 that keeps a non-mapping area
\* entry as it is
BackfillArea_keep_non_mapping(area_data) ==
    IF area_data.t # "dict"
    THEN area_data
    ELSE _normalize_missing_markers(JDict(SetDefaults(area_data.dict, AreaFields)))

\* one iteration of the loop of lines 120-139
BackfillArea(area_data) ==
    IF area_data.t # "dict"
    THEN JDict([f \in AreaFields |-> Sentinel])
    ELSE _normalize_missing_markers(JDict(SetDefaults(area_data.dict, AreaFields)))

\* lines 120-139
BackfillAreas(completed) ==
    LET areas == completed[Area_Wise_Observations].dict
    IN  SetItem(completed, Area_Wise_Observations,
                JDict([area \in DOMAIN areas |-> BackfillArea(areas[area])]))

\* dict.get(key) == "Not Available"
GetIsSentinel(d, k) == HasKey(d, k) /\ d[k] = Sentinel

\* lines 144-148, with "or" in place of "and"
is_placeholder_general_any(general) ==
    \/ GetIsSentinel(general, inspection_observation)
    \/ GetIsSentinel(general, thermal_observation)
    \/ GetIsSentinel(general, merged_finding)

\* lines 144-148
is_placeholder_general(general) ==
    /\ GetIsSentinel(general, inspection_observation)
    /\ GetIsSentinel(general, thermal_observation)
    /\ GetIsSentinel(general, merged_finding)

\* lines 141-150
DropPlaceholderGeneral(completed) ==
    LET areas == completed[Area_Wise_Observations].dict
    IN  IF /\ HasKey(areas, General)
           /\ areas[General].t = "dict"
           /\ is_placeholder_general(areas[General].dict)
        THEN SetItem(completed, Area_Wise_Observations, JDict(Pop(areas, General)))
        ELSE completed

\* data is the dict json.loads returned; the result is the dict "completed"
_coerce_to_schema_shape(data) ==
    LET normalized == _normalize_missing_markers(data).dict
        completed == CopyExpected(_build_default_structure, normalized)
    IN  JDict(DropPlaceholderGeneral(BackfillAreas(ForceMissingInfo(
              ForceSeverity(ForceAreaMapping(completed))))))

-----------------------------------------------------------------------------
(* Strict Validator: DDRReport.model_validate *)

MISSING_VALUE_ALIASES ==
    { <<"n/a">>, <<"na">>, <<"none">>, <<"null">>, <<"unknown">>,
      <<"not", " ", "provided">>, <<"missing">> }

\* the result of a validator: the value it returns, or the ValueError it raises
Valid(value) == [ok |-> TRUE, value |-> value]
Invalid(msg) == [ok |-> FALSE, msg |-> msg]

_validate_non_empty(value) ==
    LET cleaned == Strip(value)
    IN  IF cleaned = <<>> THEN Invalid("cannot be empty.")
        ELSE IF Lower(cleaned) \in MISSING_VALUE_ALIASES
             THEN Invalid("uses an invalid missing marker. Use 'Not Available' instead.")
             ELSE Valid(cleaned)

\* str.split(sep): the pieces of s between the occurrences of the token sep
RECURSIVE Split(_, _)
Split(s, sep) ==
    IF \E i \in 1..Len(s) : s[i] = sep
    THEN LET i == CHOOSE n \in 1..Len(s) : s[n] = sep /\ \A m \in 1..(n - 1) : s[m] # sep
         IN  <<SubSeq(s, 1, i - 1)>> \o Split(SubSeq(s, i + 1, Len(s)), sep)
    ELSE <<s>>

DampnessAllowed ==
    { <<"rising", " ", "damp">>, <<"rising", " ", "damp", " ", "(probable)">>,
      <<"penetrating", " ", "damp">>, <<"penetrating", " ", "damp", " ", "(probable)">>,
      <<"plumbing", " ", "leakage", " ", "damp">>,
      <<"plumbing", " ", "leakage", " ", "damp", " ", "(probable)">>,
      <<"not", " ", "available">> }

\* lines 85-94 with the empty parts left out of the test
validate_dampness_type_skip_empty(value) ==
    LET pieces == Split(value, ",")
        parts == [i \in 1..Len(pieces) |-> Lower(Strip(pieces[i]))]
    IN  IF \E i \in 1..Len(parts) : parts[i] # <<>> /\ parts[i] \notin DampnessAllowed
        THEN Invalid("dampness_type must use Rising/Penetrating/Plumbing Leakage Damp with optional '(Probable)', or Not Available.")
        ELSE Valid(value)

\* AreaObservation.validate_dampness_type
validate_dampness_type(value) ==
    LET pieces == Split(value, ",")
        parts == [i \in 1..Len(pieces) |-> Lower(Strip(pieces[i]))]
    IN  IF parts = <<>> THEN Invalid("dampness_type cannot be empty.")
        ELSE IF \E i \in 1..Len(parts) : parts[i] \notin DampnessAllowed
             THEN Invalid("dampness_type must use Rising/Penetrating/Plumbing Leakage Damp with optional '(Probable)', or Not Available.")
             ELSE Valid(value)

\* lines 121-128 with the labels of the field description of line 101
SeverityAllowed_field_description ==
    { <<"low">>, <<"medium">>, <<"high">>, <<"critical">>, <<"not", " ", "available">> }

SeverityAllowed ==
    { <<"low">>, <<"low", " ", "to", " ", "moderate">>, <<"moderate">>,
      <<"moderate", " ", "to", " ", "high">>, <<"high">>, <<"not", " ", "available">> }

\* SeverityAssessment.validate_overall_severity
validate_overall_severity(value) ==
    IF Lower(Strip(value)) \notin SeverityAllowed
    THEN Invalid("overall_severity must be Low, Low to Moderate, Moderate, Moderate to High, High, or Not Available.")
    ELSE Valid(value)

ConfidenceAllowed == { <<"high">>, <<"medium">>, <<"low">>, <<"not", " ", "available">> }

\* SeverityAssessment.validate_confidence_level
validate_confidence_level(value) ==
    IF Lower(Strip(value)) \notin ConfidenceAllowed
    THEN Invalid("Confidence_Level must be High, Medium, Low, or Not Available.")
    ELSE Valid(value)

\* the validator pydantic runs after validate_strings on the field named f
SecondValidator(f, value) ==
    CASE f = dampness_type -> validate_dampness_type(value)
      [] f = overall_severity -> validate_overall_severity(value)
      [] f = Confidence_Level -> validate_confidence_level(value)
      [] OTHER -> Valid(value)

\* a field declared "str": the input must be a str, then the field
\* validators run in the order of their definition, each on the value the
\* previous one returned
ValidateStrField(f, v) ==
    IF v.t # "str" THEN Invalid("Input should be a valid string")
    ELSE LET first == _validate_non_empty(v.str)
         IN  IF first.ok THEN SecondValidator(f, first.value) ELSE first

\* one line of a pydantic ValidationError: where, and why
ErrorAt(loc, msg) == [loc |-> loc, msg |-> msg]

\* the fields of AreaObservation declared with "..."
AreaRequired == { inspection_observation, thermal_observation, merged_finding }

\* the errors of a model whose fields are all str: a missing required field,
\* or a present field that fails ValidateStrField
StrModelErrors(prefix, fields, required, d) ==
    { ErrorAt(prefix \o <<f>>, "Field required") : f \in { x \in required : ~HasKey(d, x) } }
        \cup { ErrorAt(prefix \o <<f>>, ValidateStrField(f, d[f]).msg) :
                  f \in { x \in fields : HasKey(d, x) /\ ~ValidateStrField(x, d[x]).ok } }

\* the value of a valid model whose fields are all str: the declared fields
\* only, a missing optional field at its default "Not Available"
StrModelValue(fields, d) ==
    [f \in fields |-> IF HasKey(d, f) THEN JStr(ValidateStrField(f, d[f]).value) ELSE Sentinel]

\* the errors of the Dict[str, AreaObservation] field, before its validator
AreaTypeErrors(v) ==
    IF v.t # "dict" THEN { ErrorAt(<<Area_Wise_Observations>>, "Input should be a valid dictionary") }
    ELSE UNION { IF v.dict[a].t # "dict"
                 THEN { ErrorAt(<<Area_Wise_Observations, a>>, "Input should be a valid dictionary") }
                 ELSE StrModelErrors(<<Area_Wise_Observations, a>>, AreaFields, AreaRequired,
                                     v.dict[a].dict) : a \in DOMAIN v.dict }

\* the value handed to validate_area_observations
AreaTypedValue(v) == [a \in DOMAIN v.dict |-> StrModelValue(AreaFields, v.dict[a].dict)]

\* lines 179-183 of schemas.py, with the test made on inspection_observation only
IsPlaceholderArea_inspection_only(area) ==
    Strip(area[inspection_observation].str) = NotAvailable

\* lines 179-183 of schemas.py
IsPlaceholderArea(area) ==
    /\ Strip(area[inspection_observation].str) = NotAvailable
    /\ Strip(area[thermal_observation].str) = NotAvailable
    /\ Strip(area[merged_finding].str) = NotAvailable

\* DDRReport.validate_area_observations
validate_area_observations(value) ==
    IF \E key \in DOMAIN value : key = <<>> \/ Strip(key) = <<>>
    THEN Invalid("Area_Wise_Observations contains an empty area name.")
    ELSE IF \E key \in DOMAIN value :
                Lower(Strip(key)) = <<"general">> /\ IsPlaceholderArea(value[key])
         THEN Invalid("Placeholder 'General' area with no valid observations is not allowed.")
         ELSE Valid(value)

AreaErrors(v) ==
    IF AreaTypeErrors(v) # {} THEN AreaTypeErrors(v)
    ELSE IF validate_area_observations(AreaTypedValue(v)).ok THEN {}
         ELSE { ErrorAt(<<Area_Wise_Observations>>,
                        validate_area_observations(AreaTypedValue(v)).msg) }

SeverityErrors(v) ==
    IF v.t # "dict" THEN { ErrorAt(<<Severity_Assessment>>, "Input should be a valid dictionary") }
    ELSE StrModelErrors(<<Severity_Assessment>>, SeverityFields, SeverityFields, v.dict)

\* the position of a list item as pydantic prints it (counted from 0)
Index(i) == <<ToString(i - 1)>>

\* the errors of the List[str] field, before its validator
MissingInfoTypeErrors(v) ==
    IF v.t # "list"
    THEN { ErrorAt(<<Missing_or_Unclear_Information>>, "Input should be a valid list") }
    ELSE { ErrorAt(<<Missing_or_Unclear_Information, Index(i)>>, "Input should be a valid string") :
              i \in { n \in 1..Len(v.list) : v.list[n].t # "str" } }

\* DDRReport.validate_missing_info_list
validate_missing_info_list(value) ==
    IF \E i \in 1..Len(value) : Strip(value[i].str) = <<>>
    THEN Invalid("Missing_or_Unclear_Information contains an empty item.")
    ELSE Valid([i \in 1..Len(value) |-> JStr(Strip(value[i].str))])

MissingInfoErrors(v) ==
    IF MissingInfoTypeErrors(v) # {} THEN MissingInfoTypeErrors(v)
    ELSE IF validate_missing_info_list(v.list).ok THEN {}
         ELSE { ErrorAt(<<Missing_or_Unclear_Information>>, validate_missing_info_list(v.list).msg) }

\* the fields DDRReport.validate_core_strings is attached to
CoreStrings ==
    { Property_Issue_Summary, Probable_Root_Cause, Recommended_Actions,
      Risk_Implications, Additional_Notes }

\* every line of the ValidationError that DDRReport.model_validate(d) raises
ValidationErrors(d) ==
    { ErrorAt(<<k>>, "Field required") : k \in { x \in EXPECTED_TOP_LEVEL_KEYS : ~HasKey(d, x) } }
        \cup StrModelErrors(<<>>, CoreStrings, {}, d)
        \cup (IF HasKey(d, Area_Wise_Observations)
              THEN AreaErrors(d[Area_Wise_Observations]) ELSE {})
        \cup (IF HasKey(d, Severity_Assessment)
              THEN SeverityErrors(d[Severity_Assessment]) ELSE {})
        \cup (IF HasKey(d, Missing_or_Unclear_Information)
              THEN MissingInfoErrors(d[Missing_or_Unclear_Information]) ELSE {})

\* the DDRReport built from a document without errors, as model_dump() shows it
ReportOf(d) ==
    JDict([k \in EXPECTED_TOP_LEVEL_KEYS |->
        CASE k = Area_Wise_Observations ->
                JDict([a \in DOMAIN d[k].dict |-> JDict(AreaTypedValue(d[k])[a])])
          [] k = Severity_Assessment -> JDict(StrModelValue(SeverityFields, d[k].dict))
          [] k = Missing_or_Unclear_Information ->
                JList(validate_missing_info_list(d[k].list).value)
          [] OTHER -> JStr(ValidateStrField(k, d[k]).value)])

\* an exception: its class, its message, and for a ValidationError the lines
\* (field location and reason) that its message lists
Exception(cls, msg, errors) == [cls |-> cls, msg |-> msg, errors |-> errors]

\* DDRReport.model_validate(coerced): the report, or the ValidationError
model_validate(coerced) ==
    LET errors == ValidationErrors(coerced.dict)
    IN  IF errors = {}
        THEN [ok |-> TRUE, value |-> ReportOf(coerced.dict)]
        ELSE [ok |-> FALSE,
              error |-> Exception("ValidationError",
                                  <<"validation errors for DDRReport">>, errors)]

-----------------------------------------------------------------------------
(* Payload Extractor and _parse_and_validate *)

\* re.search(r"\{.*\}", candidate, flags=re.DOTALL) finds a match
HasBraceSpan(candidate) ==
    \E i \in 1..Len(candidate) : \E j \in (i + 1)..Len(candidate) :
        candidate[i] = "{" /\ candidate[j] = "}"

\* group(0) of a match of the pattern with ".*?": leftmost start, shortest end
BraceSpan_non_greedy(candidate) ==
    LET i == CHOOSE n \in 1..Len(candidate) :
                /\ candidate[n] = "{"
                /\ \A m \in 1..(n - 1) : candidate[m] # "{"
        j == CHOOSE n \in (i + 1)..Len(candidate) :
                /\ candidate[n] = "}"
                /\ \A m \in (i + 1)..(n - 1) : candidate[m] # "}"
    IN  SubSeq(candidate, i, j)

\* group(0) of that match: leftmost start, greedy end
BraceSpan(candidate) ==
    LET i == CHOOSE n \in 1..Len(candidate) :
                /\ candidate[n] = "{"
                /\ \A m \in 1..(n - 1) : candidate[m] # "{"
        j == CHOOSE n \in 1..Len(candidate) :
                /\ candidate[n] = "}"
                /\ \A m \in (n + 1)..Len(candidate) : candidate[m] # "}"
    IN  SubSeq(candidate, i, j)

\* lines 44-54 without the search of lines 50-52
_extract_json_payload_no_search(raw_text) ==
    LET candidate == Strip(raw_text)
    IN  IF candidate # <<>> /\ candidate[1] = "{" /\ candidate[Len(candidate)] = "}"
        THEN [ok |-> TRUE, value |-> candidate]
        ELSE [ok |-> FALSE,
              error |-> Exception("ValueError",
                                  <<"No JSON object found in model response.">>, {})]

_extract_json_payload(raw_text) ==
    LET candidate == Strip(raw_text)
    IN  IF candidate # <<>> /\ candidate[1] = "{" /\ candidate[Len(candidate)] = "}"
        THEN [ok |-> TRUE, value |-> candidate]
        ELSE IF HasBraceSpan(candidate)
             THEN [ok |-> TRUE, value |-> BraceSpan(candidate)]
             ELSE [ok |-> FALSE,
                   error |-> Exception("ValueError",
                                       <<"No JSON object found in model response.">>, {})]

\* JSON texts.  A token of a JSON text is a brace or a run of text that holds
\* no brace.
Text_Partial == <<"{", "\"Property_Issue_Summary\":\"Damp noted\"", "}">>

Text_Severe ==
    <<"{", "\"Severity_Assessment\":", "{", "\"overall_severity\":\"Severe\"", "}", "}">>

Text_Mold ==
    <<"{", "\"Area_Wise_Observations\":", "{", "\"Kitchen\":", "{",
      "\"inspection_observation\":\"Damp noted\",\"dampness_type\":\"Mold\"", "}", "}", "}">>

Text_OnlyGeneral ==
    <<"{", "\"Area_Wise_Observations\":", "{", "\"General\":", "{", "}", "}", "}">>

Text_LowerGeneral ==
    <<"{", "\"Area_Wise_Observations\":", "{", "\"general\":", "{",
      "\"conflict_note\":\"n/a\"", "}", "}", "}">>

Text_Full ==
    <<"{", "\"Property_Issue_Summary\":\" Damp noted\",\"Area_Wise_Observations\":", "{",
      "\"Kitchen\":", "{",
      "\"inspection_observation\":\"Damp noted\",\"thermal_observation\":\"N/A\",\"merged_finding\":\"Seepage\",\"dampness_type\":\"Rising Damp, Penetrating Damp (Probable)\"",
      "}", "}", ",\"Severity_Assessment\":", "{",
      "\"overall_severity\":\"Low\",\"reasoning\":\"Seepage\",\"Confidence_Level\":\"Medium\",\"Confidence_Reasoning\":\"Damp noted\"",
      "}", ",\"Risk_Implications\":null,\"Missing_or_Unclear_Information\":[\"Unknown\"]", "}">>

Text_NotJson == <<"{", "Property_Issue_Summary: Damp noted", "}">>

Text_TwoSpans == <<"{", "braces", "}", " ", "then", " ">> \o Text_Partial

Doc_Partial == JDict(Property_Issue_Summary :> JStr(<<"Damp", " ", "noted">>))

Doc_Severe == JDict(Severity_Assessment :> JDict(overall_severity :> JStr(W("Severe"))))

Doc_Mold ==
    JDict(Area_Wise_Observations :> JDict(W("Kitchen") :>
        JDict((inspection_observation :> JStr(<<"Damp", " ", "noted">>))
              @@ (dampness_type :> JStr(W("Mold"))))))

Doc_OnlyGeneral == JDict(Area_Wise_Observations :> JDict(General :> JDict(EmptyDict)))

Doc_LowerGeneral ==
    JDict(Area_Wise_Observations :> JDict(W("general") :>
        JDict(conflict_note :> JStr(W("n/a")))))

Doc_Full ==
    JDict((Property_Issue_Summary :> JStr(<<" ", "Damp", " ", "noted">>))
          @@ (Area_Wise_Observations :> JDict(W("Kitchen") :>
                JDict((inspection_observation :> JStr(<<"Damp", " ", "noted">>))
                      @@ (thermal_observation :> JStr(W("N/A")))
                      @@ (merged_finding :> JStr(W("Seepage")))
                      @@ (dampness_type :> JStr(<<"Rising", " ", "Damp", ",", " ",
                                                  "Penetrating", " ", "Damp", " ", "(Probable)">>)))))
          @@ (Severity_Assessment :>
                JDict((overall_severity :> JStr(W("Low"))) @@ (reasoning :> JStr(W("Seepage")))
                      @@ (Confidence_Level :> JStr(W("Medium")))
                      @@ (Confidence_Reasoning :> JStr(<<"Damp", " ", "noted">>))))
          @@ (Risk_Implications :> JNull)
          @@ (Missing_or_Unclear_Information :> JList(<<JStr(W("Unknown"))>>)))

\* json.loads(json_payload) on the JSON texts above; every other text here is
\* no JSON and raises json.JSONDecodeError
json_loads(json_payload) ==
    CASE json_payload = Text_Partial -> [ok |-> TRUE, value |-> Doc_Partial]
      [] json_payload = Text_Severe -> [ok |-> TRUE, value |-> Doc_Severe]
      [] json_payload = Text_Mold -> [ok |-> TRUE, value |-> Doc_Mold]
      [] json_payload = Text_OnlyGeneral -> [ok |-> TRUE, value |-> Doc_OnlyGeneral]
      [] json_payload = Text_LowerGeneral -> [ok |-> TRUE, value |-> Doc_LowerGeneral]
      [] json_payload = Text_Full -> [ok |-> TRUE, value |-> Doc_Full]
      [] OTHER -> [ok |-> FALSE,
                   error |-> Exception("JSONDecodeError", <<"Expecting property name">>, {})]

\* _parse_and_validate under a model_validate that accepts every document
_parse_and_validate_unvalidated(raw_text) ==
    LET json_payload == _extract_json_payload(raw_text)
    IN  IF ~json_payload.ok THEN json_payload
        ELSE LET parsed == json_loads(json_payload.value)
             IN  IF ~parsed.ok THEN parsed
                 ELSE [ok |-> TRUE, value |-> _coerce_to_schema_shape(parsed.value)]

\* the DDRReport, or the exception that leaves _parse_and_validate
_parse_and_validate(raw_text) ==
    LET json_payload == _extract_json_payload(raw_text)
    IN  IF ~json_payload.ok THEN json_payload
        ELSE LET parsed == json_loads(json_payload.value)
             IN  IF ~parsed.ok THEN parsed
                 ELSE model_validate(_coerce_to_schema_shape(parsed.value))

-----------------------------------------------------------------------------
(* Transport: _call_openrouter *)

\* what requests.post does: it raises, or it returns a response
PostRaises(name) == [kind |-> "exception", name |-> name]
Response(status_code, body) == [kind |-> "response", status_code |-> status_code, body |-> body]

\* a response body: text that is no JSON, or the JSON value it holds
TextBody(text) == [is_json |-> FALSE, text |-> text, json |-> JNull]
JsonBody(value) == [is_json |-> TRUE, text |-> <<"<json>">>, json |-> value]

\* bool(value)
Truthy(v) ==
    CASE v.t = "str" -> v.str # <<>>
      [] v.t = "num" -> v.num # 0
      [] v.t = "bool" -> v.bool
      [] v.t = "list" -> v.list # <<>>
      [] v.t = "dict" -> DOMAIN v.dict # {}
      [] OTHER -> FALSE

\* str(value); the text of a value that is no str is not modelled further
PyStr(v) == IF v.t = "str" THEN v.str ELSE <<"<repr>">>

_extract_openrouter_error(body) ==
    IF ~body.is_json
    THEN IF body.text # <<>> THEN body.text ELSE <<"Unknown OpenRouter error.">>
    ELSE LET payload == body.json
         IN  IF payload.t = "dict"
             THEN IF /\ HasKey(payload.dict, W("error"))
                     /\ payload.dict[W("error")].t = "dict"
                     /\ HasKey(payload.dict[W("error")].dict, W("message"))
                     /\ Truthy(payload.dict[W("error")].dict[W("message")])
                  THEN PyStr(payload.dict[W("error")].dict[W("message")])
                  ELSE IF HasKey(payload.dict, W("message")) /\ Truthy(payload.dict[W("message")])
                       THEN PyStr(payload.dict[W("message")])
                       ELSE PyStr(payload)
             ELSE PyStr(payload)

\* data["choices"][0]["message"]["content"] evaluates without an exception
HasContent(data) ==
    /\ data.t = "dict"
    /\ HasKey(data.dict, W("choices"))
    /\ data.dict[W("choices")].t = "list"
    /\ data.dict[W("choices")].list # <<>>
    /\ data.dict[W("choices")].list[1].t = "dict"
    /\ HasKey(data.dict[W("choices")].list[1].dict, W("message"))
    /\ data.dict[W("choices")].list[1].dict[W("message")].t = "dict"
    /\ HasKey(data.dict[W("choices")].list[1].dict[W("message")].dict, W("content"))

ContentOf(data) == data.dict[W("choices")].list[1].dict[W("message")].dict[W("content")]

LLMGenerationError(msg) == Exception("LLMGenerationError", msg, {})
LLMQuotaExceededError(msg) == Exception("LLMQuotaExceededError", msg, {})
LLMAuthError(msg) == Exception("LLMAuthError", msg, {})

Raise(error) == [ok |-> FALSE, error |-> error]

\* lines 201-209 with HTTP 429 left to the generic branch
ClassifyStatus_429_generic(r) ==
    IF r.status_code \in {401, 403}
    THEN Raise(LLMAuthError(<<"OpenRouter authentication/authorization failed",
                              ToString(r.status_code)>> \o _extract_openrouter_error(r.body)))
    ELSE Raise(LLMGenerationError(<<"OpenRouter request failed", ToString(r.status_code)>>
                                  \o _extract_openrouter_error(r.body)))

\* lines 201-213: the exception raised for a response with status >= 400
ClassifyStatus(r) ==
    IF r.status_code = 429
    THEN Raise(LLMQuotaExceededError(<<"OpenRouter quota/rate limit exceeded (HTTP 429): ">>
                                     \o _extract_openrouter_error(r.body)))
    ELSE IF r.status_code \in {401, 403}
         THEN Raise(LLMAuthError(<<"OpenRouter authentication/authorization failed",
                                   ToString(r.status_code)>> \o _extract_openrouter_error(r.body)))
         ELSE Raise(LLMGenerationError(<<"OpenRouter request failed", ToString(r.status_code)>>
                                       \o _extract_openrouter_error(r.body)))

\* lines 191-227 of _call_openrouter, given what requests.post did: the
\* assistant text, or the exception raised
_call_openrouter(r) ==
    IF r.kind = "exception"
    THEN Raise(LLMGenerationError(<<"OpenRouter request failed: ", r.name>>))
    ELSE IF r.status_code = 429 \/ r.status_code \in {401, 403} \/ r.status_code >= 400
         THEN ClassifyStatus(r)
         ELSE IF ~r.body.is_json
              THEN Raise(LLMGenerationError(<<"OpenRouter returned non-JSON response.">>))
              ELSE IF ~HasContent(r.body.json)
                   THEN Raise(LLMGenerationError(
                                <<"OpenRouter response missing choices/message/content.">>))
                   ELSE IF \/ ContentOf(r.body.json).t # "str"
                           \/ Strip(ContentOf(r.body.json).str) = <<>>
                        THEN Raise(LLMGenerationError(
                                     <<"OpenRouter returned empty assistant content.">>))
                        ELSE [ok |-> TRUE, value |-> ContentOf(r.body.json).str]

\* config.get_openrouter_api_key with the key unset or blank
MissingKeyError ==
    Exception("RuntimeError",
              <<"OPENROUTER_API_KEY is not set. Add it to your .env file before running the app.">>,
              {})

-----------------------------------------------------------------------------
(* Retry Orchestrator: generate_ddr *)

\* last_error = None
NoError == [cls |-> "None"]

\* generate_ddr has neither returned nor raised
Pending == [kind |-> "pending"]

\* 20000 in the source; scaled so that a text can exceed it
MAX_INPUT_CHARS_PER_REPORT == 48

\* the placeholders of DDR_PROMPT_TEMPLATE, character by character
InspectionPlaceholder ==
    <<"{", "i", "n", "s", "p", "e", "c", "t", "i", "o", "n", "_", "t", "e", "x", "t", "}">>

ThermalPlaceholder ==
    <<"{", "t", "h", "e", "r", "m", "a", "l", "_", "t", "e", "x", "t", "}">>

\* prompts.py: the instructions and the schema are one token each, they hold
\* neither placeholder
DDR_PROMPT_TEMPLATE ==
    <<"<instructions, schema, validation constraints>", "\n\nInspection Report Text:\n">>
        \o InspectionPlaceholder \o <<"\n\nThermal Report Text:\n">>
        \o ThermalPlaceholder \o <<"\n">>

\* str.find(old): the index of the leftmost occurrence of old in s, 0 if none
Find(s, old) ==
    LET found == { i \in 1..(Len(s) - Len(old) + 1) : SubSeq(s, i, i + Len(old) - 1) = old }
    IN  IF found = {} THEN 0 ELSE CHOOSE i \in found : \A j \in found : i <= j

\* str.replace(old, new): the occurrences of old, taken from the left without
\* overlap, are replaced; the text put in is not searched again. The set
\* binds text to the value of s, which is then evaluated once.
RECURSIVE Replace(_, _, _)
Replace(s, old, new) ==
    CHOOSE out \in
        { LET i == Find(text, old)
          IN  IF i = 0 THEN text
              ELSE SubSeq(text, 1, i - 1) \o new
                      \o Replace(SubSeq(text, i + Len(old), Len(text)), old, new) :
            text \in {s} } : TRUE

\* text[:n]
Slice(text, n) == SubSeq(text, 1, IF Len(text) < n THEN Len(text) ELSE n)

\* lines 240-250
base_prompt ==
    LET inspection_slice == Slice(inspection_text, MAX_INPUT_CHARS_PER_REPORT)
        thermal_slice == Slice(thermal_text, MAX_INPUT_CHARS_PER_REPORT)
    IN  Replace(Replace(DDR_PROMPT_TEMPLATE, InspectionPlaceholder, inspection_slice),
                ThermalPlaceholder, thermal_slice)

\* lines 265-267
RETRY_SUFFIX ==
    <<"\n\nYour previous response was invalid. Return ONLY a valid JSON object with the exact schema.">>

\* the classes an exception is an instance of
Bases(cls) ==
    CASE cls = "LLMQuotaExceededError" -> {"LLMQuotaExceededError", "LLMGenerationError", "Exception"}
      [] cls = "LLMAuthError" -> {"LLMAuthError", "LLMGenerationError", "Exception"}
      [] cls = "LLMGenerationError" -> {"LLMGenerationError", "Exception"}
      [] cls = "JSONDecodeError" -> {"JSONDecodeError", "ValueError", "Exception"}
      [] cls = "ValidationError" -> {"ValidationError", "ValueError", "Exception"}
      [] cls = "ValueError" -> {"ValueError", "Exception"}
      [] cls = "RuntimeError" -> {"RuntimeError", "Exception"}
      [] OTHER -> {cls, "Exception"}

\* line 259 without LLMAuthError
NonRecoverable_quota_only == {"LLMQuotaExceededError"}

\* line 259
NonRecoverable == {"LLMQuotaExceededError", "LLMAuthError"}

\* line 262 without LLMGenerationError
Recoverable_pipeline_only == {"JSONDecodeError", "ValidationError", "ValueError"}

\* line 262
Recoverable == {"JSONDecodeError", "ValidationError", "ValueError", "LLMGenerationError"}

Returned(report) == [kind |-> "returned", report |-> report]
Raised(error) == [kind |-> "raised", error |-> error]

\* line 263, keeping the first failure
Caught_keep_first(previous, exc) == IF previous = NoError THEN exc ELSE previous

\* line 263: last_error = exc
Caught(previous, exc) == exc

\* line 271: the message embeds str(last_error), raised "from last_error"
TerminalError(last) ==
    [cls |-> "LLMGenerationError",
     msg |-> <<"Failed to generate a valid DDR JSON response: ">> \o last.msg,
     errors |-> last.errors,
     cause |-> last]

\* line 257, second attempt: the suffix is not appended
PromptFor_no_suffix(suffix) == base_prompt

\* line 257: base_prompt + retry_suffix
PromptFor(suffix) == base_prompt \o suffix

\* line 255: range(2)
Attempts == 2

\* line 264, never retrying
MayRetry_never(n) == FALSE

\* line 264: the suffix is set and the loop continues
MayRetry(n) == n = 0

\* the except clauses of lines 259-269 with a loop of three attempts that
\* continues after each recoverable failure but the last
Handle_two_retries(exc) ==
    IF Bases(exc.cls) \cap NonRecoverable # {}
    THEN /\ outcome' = Raised(exc)
         /\ pc' = "done"
         /\ UNCHANGED <<attempt, retry_suffix, last_error>>
    ELSE IF Bases(exc.cls) \cap Recoverable # {}
         THEN /\ last_error' = Caught(last_error, exc)
              /\ IF attempt < Attempts
                 THEN /\ retry_suffix' = RETRY_SUFFIX
                      /\ attempt' = attempt + 1
                      /\ pc' = "retry"
                      /\ UNCHANGED outcome
                 ELSE /\ outcome' = Raised(TerminalError(last_error'))
                      /\ pc' = "done"
                      /\ UNCHANGED <<attempt, retry_suffix>>
         ELSE /\ outcome' = Raised(exc)
              /\ pc' = "done"
              /\ UNCHANGED <<attempt, retry_suffix, last_error>>

\* the except clauses of lines 259-269 and line 271, for an exception raised
\* inside the try block
Handle(exc) ==
    IF Bases(exc.cls) \cap NonRecoverable # {}
    THEN /\ outcome' = Raised(exc)
         /\ pc' = "done"
         /\ UNCHANGED <<attempt, retry_suffix, last_error>>
    ELSE IF Bases(exc.cls) \cap Recoverable # {}
         THEN /\ last_error' = Caught(last_error, exc)
              /\ IF MayRetry(attempt) /\ attempt + 1 < Attempts
                 THEN /\ retry_suffix' = RETRY_SUFFIX
                      /\ attempt' = attempt + 1
                      /\ pc' = "retry"
                      /\ UNCHANGED outcome
                 ELSE /\ outcome' = Raised(TerminalError(last_error'))
                      /\ pc' = "done"
                      /\ UNCHANGED <<attempt, retry_suffix>>
         ELSE /\ outcome' = Raised(exc)
              /\ pc' = "done"
              /\ UNCHANGED <<attempt, retry_suffix, last_error>>

\* line 257 up to requests.post: the prompt is built, _call_openrouter is
\* entered and reads the API key (config.py lines 16-20)
CallOpenRouter ==
    /\ pc \in {"start", "retry"}
    /\ calls' = Append(calls, PromptFor(retry_suffix))
    /\ IF api_key_set
       THEN /\ pc' = "awaiting"
            /\ UNCHANGED <<attempt, retry_suffix, last_error, outcome>>
       ELSE Handle(MissingKeyError)
    /\ UNCHANGED <<api_key_set, inspection_text, thermal_text, responses, fn_vars, ep_vars>>

\* requests.post returns or raises; _call_openrouter classifies it, line 258
\* parses and validates the text, and the loop handles the exception
TransportReturns(r) ==
    /\ pc = "awaiting"
    /\ responses' = Append(responses, r)
    /\ LET text == _call_openrouter(r)
           result == IF text.ok THEN _parse_and_validate(text.value) ELSE text
       IN  IF result.ok
           THEN /\ outcome' = Returned(result.value)
                /\ pc' = "done"
                /\ UNCHANGED <<attempt, retry_suffix, last_error>>
           ELSE Handle(result.error)
    /\ UNCHANGED <<api_key_set, inspection_text, thermal_text, calls, fn_vars, ep_vars>>

-----------------------------------------------------------------------------
(* Inputs of the pure functions *)

\* nesting depth of the values given to the Value Normalizer
MaxDepth == 2

\* number of areas in the documents given to the Schema Coercer
MaxAreas == 2

\* the aliases as the specification's test writes them
AliasSamples ==
    { <<>>, <<"n/a">>, <<"NA">>, <<"Null">>, <<"NONE">>, <<"Unknown">>,
      <<"Not", " ", "Provided">>, <<"Missing">> }

\* aliases wrapped in whitespace, and whitespace alone
PaddedAliasSamples ==
    { <<" ", "N/A", "\n">>, <<"\n", "none">>, <<" ">>, <<" ", "\n">>,
      <<" ", "not", " ", "provided", " ">> }

\* strings that are no alias
ContentSamples ==
    { NotAvailable, <<" ", "Not", " ", "Available", " ">>, <<"not", " ", "available">>,
      <<"Damp", " ", "noted">>, <<"\n", "Damp", " ", "noted", " ">>,
      <<"n/a", " ", "noted">>, <<"not", "\n", "provided">> }

StrSamples == AliasSamples \cup PaddedAliasSamples \cup ContentSamples

Leaves ==
    { JStr(s) : s \in StrSamples }
        \cup { JNull, JNum(0), JBool(TRUE), JList(<<>>), JDict(EmptyDict) }

\* the values placed next to the value under test
Siblings == { JNull, JStr(<<" ", "Damp", " ", "noted">>) }

\* x alone, x as a sequence element, x as a mapping value
Wrap(x) ==
    { x, JList(<<x>>), JDict(W("a") :> x) }
        \cup { JList(<<s, x>>) : s \in Siblings }
        \cup { JList(<<x, s>>) : s \in Siblings }
        \cup { JDict((W("a") :> x) @@ (W("N/A") :> s)) : s \in Siblings }

RECURSIVE Nested(_)
Nested(d) ==
    IF d = 0 THEN Leaves ELSE UNION { Wrap(x) : x \in Nested(d - 1) }

NormalizerInputs == Nested(MaxDepth)

\* a key the input does not have
Absent == [t |-> "absent"]

\* the dict holding the entries of f that are not Absent
DictOf(f) == [k \in { x \in DOMAIN f : f[x] # Absent } |-> f[k]]

S_DampNoted == <<"Damp", " ", "noted">>

AreaNames == { General, W("general"), <<" ", "General">>, W("Kitchen") }

AreaValues ==
    { JNull,
      JList(<<>>),
      JDict(EmptyDict),
      JDict((inspection_observation :> JStr(<<" ", "N/A">>)) @@ (thermal_observation :> JNull)),
      JDict((inspection_observation :> JStr(<<" ", "Damp", " ", "noted">>))
            @@ (dampness_type :> JStr(W("Mold"))) @@ (W("photo") :> JNum(3))),
      JDict((merged_finding :> JStr(W("Seepage"))) @@ (conflict_note :> JStr(<<>>))),
      JDict([f \in AreaFields |->
                IF f = dampness_type THEN JStr(<<"Rising", " ", "Damp">>)
                ELSE JStr(S_DampNoted)]) }

\* the mappings of at most n areas
RECURSIVE AreaMappings(_)
AreaMappings(n) ==
    IF n = 0 THEN { EmptyDict }
    ELSE LET smaller == AreaMappings(n - 1)
         IN  smaller \cup { SetItem(m, a, v) : m \in smaller, a \in AreaNames, v \in AreaValues }

AreaChoicesAll ==
    { Absent, JList(<<JNum(1)>>), JNull } \cup { JDict(m) : m \in AreaMappings(MaxAreas) }

AreaChoicesFew ==
    { Absent,
      JDict(General :> JDict(EmptyDict)),
      JDict((General :> JDict(merged_finding :> JStr(W("Seepage"))))
            @@ (W("Kitchen") :> JStr(<<>>))) }

TextChoices ==
    { Absent, JStr(<<" ", "N/A", " ">>), JStr(<<>>), JStr(<<" ", "Damp", " ", "noted">>),
      JNum(7), JNull, JList(<<JStr(<<"na">>)>>) }

SeverityChoices ==
    { Absent, JNum(1), JNull, JDict(EmptyDict),
      JDict(overall_severity :> JStr(W("Severe"))),
      JDict((overall_severity :> JStr(<<" ", "n/a">>)) @@ (Confidence_Level :> JNull)
            @@ (reasoning :> JStr(<<" ">>))),
      JDict((overall_severity :> JStr(W("Low"))) @@ (reasoning :> JStr(S_DampNoted))
            @@ (Confidence_Level :> JStr(W("Medium")))
            @@ (Confidence_Reasoning :> JStr(S_DampNoted))) }

MissingInfoChoices ==
    { Absent, JStr(S_DampNoted), JNull, JList(<<>>),
      JList(<<JStr(<<>>), JStr(<<" ", "Damp", " ", "noted">>)>>),
      JList(<<JNull, JStr(W("Unknown")), JNum(2)>>) }

\* the other four text keys and a key outside the schema
RestChoices ==
    { [k \in {} |-> Absent],
      (Probable_Root_Cause :> JStr(W("Seepage"))) @@ (Recommended_Actions :> JStr(<<"\n">>))
        @@ (Additional_Notes :> JNull) @@ (W("Extra_Key") :> JStr(W("none"))) }

\* the json.loads result with the given choice for each key
Document(text, risk, rest, areas, severity, missing) ==
    JDict(DictOf((Property_Issue_Summary :> text) @@ (Risk_Implications :> risk)
                 @@ (Area_Wise_Observations :> areas) @@ (Severity_Assessment :> severity)
                 @@ (Missing_or_Unclear_Information :> missing) @@ rest))

\* a document with all 8 keys, one area and every sub-field present
FullDocument(damp, severity, confidence) ==
    JDict((Area_Wise_Observations :> JDict(W("Kitchen") :>
                JDict([f \in AreaFields |->
                          IF f = dampness_type THEN JStr(damp) ELSE JStr(S_DampNoted)])))
          @@ (Severity_Assessment :>
                JDict((overall_severity :> JStr(severity)) @@ (reasoning :> JStr(W("Seepage")))
                      @@ (Confidence_Level :> JStr(confidence))
                      @@ (Confidence_Reasoning :> JStr(S_DampNoted))))
          @@ (Missing_or_Unclear_Information :> JList(<<JStr(S_DampNoted)>>))
          @@ [k \in CoreStrings |-> JStr(W("Seepage"))])

\* complete documents: as the Coercer leaves them, with a padded text, with
\* an alias or nothing in Missing_or_Unclear_Information
CompleteDocuments ==
    { JDict(SetItem(SetItem(FullDocument(<<"Rising", " ", "Damp">>, <<"Low">>, <<"High">>).dict,
                            Property_Issue_Summary, text),
                    Missing_or_Unclear_Information, missing)) :
        text \in { JStr(S_DampNoted), JStr(<<" ", "Damp", " ", "noted">>) },
        missing \in { JList(<<JStr(S_DampNoted)>>), JList(<<JStr(W("n/a"))>>), JList(<<>>) } }

CoercerInputs ==
    CompleteDocuments
    \cup
    { Document(text, Absent, rest, areas, Absent, Absent) :
        text \in { Absent, JStr(S_DampNoted) }, rest \in RestChoices, areas \in AreaChoicesAll }
    \cup
    { Document(text, risk, rest, areas, severity, missing) :
        text \in TextChoices, risk \in { Absent, JStr(W("NONE")) }, rest \in RestChoices,
        areas \in AreaChoicesFew, severity \in SeverityChoices, missing \in MissingInfoChoices }

-----------------------------------------------------------------------------
(* The request is not running while a pure function is under test *)

NoValue == [t |-> "none"]

RequestIdle ==
    /\ api_key_set = TRUE
    /\ inspection_text = <<>>
    /\ thermal_text = <<>>
    /\ pc = "idle"
    /\ attempt = 0
    /\ retry_suffix = <<>>
    /\ last_error = NoError
    /\ calls = <<>>
    /\ responses = <<>>
    /\ outcome = Pending

FunctionIdle ==
    /\ fn_pc = "idle"
    /\ fn_in = NoValue
    /\ fn_out = <<>>

\* no request is at the endpoints
EndpointIdle ==
    /\ uploads = <<>>
    /\ outputs = <<>>
    /\ clock = 0
    /\ handlers = <<>>

-----------------------------------------------------------------------------
(* Specification of the Value Normalizer *)

InitNormalize ==
    /\ RequestIdle
    /\ EndpointIdle
    /\ fn_pc = "value"
    /\ fn_in \in NormalizerInputs
    /\ fn_out = <<>>

\* _normalize_missing_markers(value)
Normalize ==
    /\ fn_pc = "value"
    /\ fn_out' = <<_normalize_missing_markers(fn_in)>>
    /\ fn_pc' = "normalized"
    /\ UNCHANGED <<fn_in, req_vars, ep_vars>>

\* _normalize_missing_markers applied to its own output
NormalizeAgain ==
    /\ fn_pc = "normalized"
    /\ fn_out' = Append(fn_out, _normalize_missing_markers(fn_out[1]))
    /\ fn_pc' = "renormalized"
    /\ UNCHANGED <<fn_in, req_vars, ep_vars>>

NextNormalize == Normalize \/ NormalizeAgain

SpecNormalize == InitNormalize /\ [][NextNormalize]_vars

-----------------------------------------------------------------------------
(* Specification of the Schema Coercer *)

InitCoerce ==
    /\ RequestIdle
    /\ EndpointIdle
    /\ fn_pc = "parsed"
    /\ fn_in \in CoercerInputs
    /\ fn_out = <<>>

\* _coerce_to_schema_shape(parsed)
Coerce ==
    /\ fn_pc = "parsed"
    /\ fn_out' = <<_coerce_to_schema_shape(fn_in)>>
    /\ fn_pc' = "coerced"
    /\ UNCHANGED <<fn_in, req_vars, ep_vars>>

\* _coerce_to_schema_shape applied to its own output
CoerceAgain ==
    /\ fn_pc = "coerced"
    /\ fn_out' = Append(fn_out, _coerce_to_schema_shape(fn_out[1]))
    /\ fn_pc' = "recoerced"
    /\ UNCHANGED <<fn_in, req_vars, ep_vars>>

NextCoerce == Coerce \/ CoerceAgain

SpecCoerce == InitCoerce /\ [][NextCoerce]_vars

-----------------------------------------------------------------------------
(* Specification of the Strict Validator *)

\* number of comma-separated components of a dampness_type value
MaxComponents == 2

\* one component of a dampness_type value
ComponentSamples ==
    { <<"Rising", " ", "Damp">>, <<"rising", " ", "damp">>,
      <<"Rising", " ", "Damp", " ", "(Probable)">>,
      <<"Penetrating", " ", "Damp">>,
      <<" ", "Penetrating", " ", "Damp", " ", "(Probable)", " ">>,
      <<"Plumbing", " ", "Leakage", " ", "Damp">>,
      <<"Plumbing", " ", "Leakage", " ", "Damp", " ", "(Probable)">>,
      <<"Not", " ", "Available">>,
      <<"Mold">>, <<"Rising">>, <<"Plumbing", " ", "Damp">>, <<"n/a">>, <<" ">>, <<>> }

\* ",".join(parts)
RECURSIVE Join(_)
Join(parts) ==
    IF Len(parts) = 1 THEN parts[1] ELSE parts[1] \o <<",">> \o Join(Tail(parts))

\* the sequences of 1..n components
RECURSIVE ComponentLists(_)
ComponentLists(n) ==
    IF n = 1 THEN { <<c>> : c \in ComponentSamples }
    ELSE ComponentLists(n - 1)
            \cup { Append(l, c) : l \in { x \in ComponentLists(n - 1) : Len(x) = n - 1 },
                                   c \in ComponentSamples }

DampnessSamples == { Join(l) : l \in ComponentLists(MaxComponents) }

SeveritySamples ==
    { <<"Low">>, <<"LOW">>, <<"Low", " ", "to", " ", "Moderate">>, <<"Moderate">>,
      <<"Moderate", " ", "to", " ", "High">>, <<"High">>, <<"Not", " ", "Available">>,
      <<" ", "High", "\n">>, <<"Severe">>, <<"Medium">>, <<"Low", " ", "to", " ", "High">>,
      <<"unknown">> }

ConfidenceSamples ==
    { <<"High">>, <<"HIGH">>, <<"Medium">>, <<"Low">>, <<"Not", " ", "Available">>,
      <<" ", "Medium">>, <<"Certain">>, <<"Moderate">> }

ValidatorInputs ==
    { FullDocument(damp, <<"Low">>, <<"High">>) : damp \in DampnessSamples }
        \cup { FullDocument(damp, severity, confidence) :
                  damp \in { <<"Rising", " ", "Damp">>, <<"Mold">> },
                  severity \in SeveritySamples, confidence \in ConfidenceSamples }

InitValidate ==
    /\ RequestIdle
    /\ EndpointIdle
    /\ fn_pc = "document"
    /\ fn_in \in ValidatorInputs
    /\ fn_out = <<>>

\* DDRReport.model_validate(document)
Validate ==
    /\ fn_pc = "document"
    /\ fn_out' = <<model_validate(fn_in)>>
    /\ fn_pc' = "validated"
    /\ UNCHANGED <<fn_in, req_vars, ep_vars>>

\* lines 234-235 of _parse_and_validate on the parsed document
CoerceAndValidate ==
    /\ fn_pc = "document"
    /\ fn_out' = <<model_validate(_coerce_to_schema_shape(fn_in))>>
    /\ fn_pc' = "pipeline"
    /\ UNCHANGED <<fn_in, req_vars, ep_vars>>

NextValidate == Validate \/ CoerceAndValidate

SpecValidate == InitValidate /\ [][NextValidate]_vars

-----------------------------------------------------------------------------
(* Specification of the Payload Extractor *)

\* length of the raw texts, in tokens
MaxTextLen == 4

\* braces, whitespace, and a run of other text
RawTokens == { "{", "}", " ", "\n", "x" }

ExtractorInputs == UNION { [1..n -> RawTokens] : n \in 0..MaxTextLen }

InitExtract ==
    /\ RequestIdle
    /\ EndpointIdle
    /\ fn_pc = "raw"
    /\ fn_in \in ExtractorInputs
    /\ fn_out = <<>>

\* _extract_json_payload(raw_text)
Extract ==
    /\ fn_pc = "raw"
    /\ fn_out' = <<_extract_json_payload(fn_in)>>
    /\ fn_pc' = "extracted"
    /\ UNCHANGED <<fn_in, req_vars, ep_vars>>

NextExtract == Extract

SpecExtract == InitExtract /\ [][NextExtract]_vars

-----------------------------------------------------------------------------
(* Text pre-processing: merger.py.  Here a sentence ends with the token "." *)

\* re.sub(r"\s+", " ", text): every run of whitespace becomes one blank
RECURSIVE CollapseWhitespace(_)
CollapseWhitespace(text) ==
    IF text = <<>> THEN <<>>
    ELSE IF Head(text) \in Whitespace
         THEN <<" ">> \o CollapseWhitespace(LStrip(Tail(text)))
         ELSE <<Head(text)>> \o CollapseWhitespace(Tail(text))

clean_whitespace(text) == Strip(CollapseWhitespace(text))

\* the replacement of one word, matched as a whole word whatever its case
AREA_NORMALIZATION_MAP(word) ==
    CASE word \in {"lr", "LR", "Lr", "lR"} -> <<"living", " ", "room">>
      [] word \in {"br", "BR", "Br", "bR"} -> <<"bedroom">>
      [] word \in {"wc", "WC", "Wc", "wC"} -> <<"washroom">>
      [] word \in {"kit", "KIT", "Kit"} -> <<"kitchen">>
      [] OTHER -> <<word>>

RECURSIVE normalize_area_names(_)
normalize_area_names(text) ==
    IF text = <<>> THEN <<>>
    ELSE AREA_NORMALIZATION_MAP(Head(text)) \o normalize_area_names(Tail(text))

\* re.split(r"(?<=[.!?])\s+", text): the pieces between the whitespace runs
\* that follow the end of a sentence
RECURSIVE SplitAfterSentenceEnd(_)
SplitAfterSentenceEnd(text) ==
    IF \E i \in 2..Len(text) : text[i] \in Whitespace /\ text[i - 1] = "."
    THEN LET i == CHOOSE n \in 2..Len(text) :
                      /\ text[n] \in Whitespace /\ text[n - 1] = "."
                      /\ \A m \in 2..(n - 1) : ~(text[m] \in Whitespace /\ text[m - 1] = ".")
         IN  <<SubSeq(text, 1, i - 1)>>
                \o SplitAfterSentenceEnd(LStrip(SubSeq(text, i + 1, Len(text))))
    ELSE <<text>>

\* the elements of a sequence that satisfy Strip(x) # <<>>, trimmed
RECURSIVE StrippedNonEmpty(_)
StrippedNonEmpty(segments) ==
    IF segments = <<>> THEN <<>>
    ELSE IF Strip(Head(segments)) = <<>> THEN StrippedNonEmpty(Tail(segments))
         ELSE <<Strip(Head(segments))>> \o StrippedNonEmpty(Tail(segments))

split_sentences(text) ==
    IF Strip(text) = <<>> THEN <<>> ELSE StrippedNonEmpty(SplitAfterSentenceEnd(text))

\* the loop of remove_repeated_sentences: seen holds the lower-cased sentences
RECURSIVE UniqueSentences(_, _)
UniqueSentences(sentences, seen) ==
    IF sentences = <<>> THEN <<>>
    ELSE IF Lower(Head(sentences)) \in seen
         THEN UniqueSentences(Tail(sentences), seen)
         ELSE <<Head(sentences)>>
                \o UniqueSentences(Tail(sentences), seen \cup {Lower(Head(sentences))})

\* " ".join(unique)
RECURSIVE JoinBlank(_)
JoinBlank(parts) ==
    IF parts = <<>> THEN <<>>
    ELSE IF Len(parts) = 1 THEN parts[1]
         ELSE parts[1] \o <<" ">> \o JoinBlank(Tail(parts))

remove_repeated_sentences(text) == JoinBlank(UniqueSentences(split_sentences(text), {}))

\* one text through the transforms of preprocess_reports
_normalize_pipeline(text) ==
    clean_whitespace(remove_repeated_sentences(normalize_area_names(clean_whitespace(text))))

preprocess_reports(inspection, thermal) ==
    <<_normalize_pipeline(inspection), _normalize_pipeline(thermal)>>

-----------------------------------------------------------------------------
(* The endpoints of main.py, for two concurrent requests *)

\* the last second of the clock
MaxClock == 1

Requests == {1, 2}

\* an uploaded PDF, given by the text parser.py extracts from it
Pdf(text) == [text |-> text]

\* a file opened with "wb" and not written yet; a reader finds no page in it
TruncatedFile == [text |-> <<>>]

\* parser.extract_text_from_pdf on the file at a path
extract_text_from_pdf(file) == file.text

\* what report_generator.generate_docx saves for a report
Docx(report) == [docx |-> report]

\* client-supplied file names: stem and extension
InspectionFileNames == { <<"site", ".pdf">>, <<"notes", ".txt">> }

ThermalFileNames == { <<"site", ".pdf">>, <<"scan", ".PDF">>, <<"scan", ".doc">> }

\* filename.lower().endswith(".pdf")
IsPdfName(filename) == filename[Len(filename)] \in {".pdf", ".PDF", ".Pdf"}

\* lines 68-69
inspection_path(filename) == <<"inspection_">> \o filename
thermal_path(filename) == <<"thermal_">> \o filename

\* report_generator.py lines 29-30, the name of the file only
DocxName(now) == <<"ddr_report_", ToString(now), ".docx">>

\* the files each request uploads
InspectionUpload(r) ==
    IF r = 1 THEN Pdf(<<"Damp", " ", " ", "in", " ", "kit", ".">>)
    ELSE Pdf(<<"Leak", " ", "in", " ", "WC", ".", "\n", "leak", " ", "in", " ", "wc", ".">>)

ThermalUpload(r) ==
    IF r = 1 THEN Pdf(<<"Cold", " ", "spot", ".">>) ELSE Pdf(<<" ", "\n">>)

NoResponse == [status_code |-> 0]

\* raise HTTPException(status_code, detail)
HTTPException(status_code, detail) == [status_code |-> status_code, detail |-> detail]

\* the request as FastAPI hands it to generate_ddr_endpoint
Received(r, inspection_filename, thermal_filename) ==
    [pc |-> "received",
     inspection_filename |-> inspection_filename,
     thermal_filename |-> thermal_filename,
     inspection_file |-> InspectionUpload(r),
     thermal_file |-> ThermalUpload(r),
     inspection_text |-> <<>>,
     thermal_text |-> <<>>,
     ddr_report |-> NoValue,
     response |-> NoResponse,
     exc |-> NoError,
     inspection_closed |-> FALSE,
     thermal_closed |-> FALSE,
     downloaded |-> NoValue]

\* what generate_ddr may return or raise, whatever the evidence
GenerateOutcomes ==
    { Returned(_parse_and_validate(Text_Partial).value),
      Returned(_parse_and_validate(Text_Full).value),
      Raised(LLMQuotaExceededError(<<"OpenRouter quota/rate limit exceeded (HTTP 429): ">>)),
      Raised(LLMAuthError(<<"OpenRouter authentication/authorization failed">>)),
      Raised(LLMGenerationError(<<"Failed to generate a valid DDR JSON response: ">>)),
      Raised(MissingKeyError) }

\* lines 77-83: a blank text becomes "Not Available", then preprocess_reports
EvidenceOf(inspection, thermal) ==
    preprocess_reports(IF Strip(inspection) = <<>> THEN NotAvailable ELSE inspection,
                       IF Strip(thermal) = <<>> THEN NotAvailable ELSE thermal)

\* the except clauses of lines 105-112 in the order LLMGenerationError,
\* LLMQuotaExceededError, LLMAuthError
ErrorResponse_base_class_first(exc) ==
    IF "LLMGenerationError" \in Bases(exc.cls) THEN HTTPException(502, exc.msg)
    ELSE IF "LLMQuotaExceededError" \in Bases(exc.cls) THEN HTTPException(429, exc.msg)
    ELSE IF "LLMAuthError" \in Bases(exc.cls) THEN HTTPException(401, exc.msg)
    ELSE HTTPException(500, <<"Failed to generate DDR report: ">> \o exc.msg)

\* the except clauses of lines 102-118
ErrorResponse(exc) ==
    IF "LLMQuotaExceededError" \in Bases(exc.cls) THEN HTTPException(429, exc.msg)
    ELSE IF "LLMAuthError" \in Bases(exc.cls) THEN HTTPException(401, exc.msg)
    ELSE IF "LLMGenerationError" \in Bases(exc.cls) THEN HTTPException(502, exc.msg)
    ELSE HTTPException(500, <<"Failed to generate DDR report: ">> \o exc.msg)

\* the finally clause of lines 120-122: both upload streams are closed
Finally == [inspection_closed |-> TRUE, thermal_closed |-> TRUE]

\* handlers with the fields of request r replaced
Update(r, fields) ==
    [handlers EXCEPT ![r] = [k \in DOMAIN handlers[r] |->
                                IF k \in DOMAIN fields THEN fields[k] ELSE handlers[r][k]]]

\* lines 62-71 up to target_path.open("wb"): the names are checked and the
\* inspection upload is opened for writing
OpenInspectionUpload(r) ==
    /\ handlers[r].pc = "received"
    /\ IF ~IsPdfName(handlers[r].inspection_filename)
       THEN /\ handlers' = Update(r, [pc |-> "responded",
                    response |-> HTTPException(400, <<"inspection_file must be a PDF.">>)]
                    @@ Finally)
            /\ UNCHANGED uploads
       ELSE IF ~IsPdfName(handlers[r].thermal_filename)
            THEN /\ handlers' = Update(r, [pc |-> "responded",
                         response |-> HTTPException(400, <<"thermal_file must be a PDF.">>)]
                         @@ Finally)
                 /\ UNCHANGED uploads
            ELSE /\ uploads' = SetItem(uploads, inspection_path(handlers[r].inspection_filename),
                                       TruncatedFile)
                 /\ handlers' = Update(r, [pc |-> "copy_inspection"])
    /\ UNCHANGED <<outputs, clock, req_vars, fn_vars>>

\* shutil.copyfileobj of _save_upload, line 71
CopyInspectionUpload(r) ==
    /\ handlers[r].pc = "copy_inspection"
    /\ uploads' = SetItem(uploads, inspection_path(handlers[r].inspection_filename),
                          handlers[r].inspection_file)
    /\ handlers' = Update(r, [pc |-> "open_thermal"])
    /\ UNCHANGED <<outputs, clock, req_vars, fn_vars>>

\* target_path.open("wb") of _save_upload, line 72
OpenThermalUpload(r) ==
    /\ handlers[r].pc = "open_thermal"
    /\ uploads' = SetItem(uploads, thermal_path(handlers[r].thermal_filename), TruncatedFile)
    /\ handlers' = Update(r, [pc |-> "copy_thermal"])
    /\ UNCHANGED <<outputs, clock, req_vars, fn_vars>>

\* shutil.copyfileobj of _save_upload, line 72
CopyThermalUpload(r) ==
    /\ handlers[r].pc = "copy_thermal"
    /\ uploads' = SetItem(uploads, thermal_path(handlers[r].thermal_filename),
                          handlers[r].thermal_file)
    /\ handlers' = Update(r, [pc |-> "extract_inspection"])
    /\ UNCHANGED <<outputs, clock, req_vars, fn_vars>>

\* line 74
ExtractInspection(r) ==
    /\ handlers[r].pc = "extract_inspection"
    /\ handlers' = Update(r, [pc |-> "extract_thermal",
            inspection_text |->
                extract_text_from_pdf(uploads[inspection_path(handlers[r].inspection_filename)])])
    /\ UNCHANGED <<uploads, outputs, clock, req_vars, fn_vars>>

\* lines 75-83: the thermal text is extracted, then both texts are prepared
ExtractThermal(r) ==
    /\ handlers[r].pc = "extract_thermal"
    /\ LET thermal == extract_text_from_pdf(uploads[thermal_path(handlers[r].thermal_filename)])
           evidence == EvidenceOf(handlers[r].inspection_text, thermal)
       IN  handlers' = Update(r, [pc |-> "generate",
                                  inspection_text |-> evidence[1],
                                  thermal_text |-> evidence[2]])
    /\ UNCHANGED <<uploads, outputs, clock, req_vars, fn_vars>>

\* lines 85-88 and, when generate_ddr raises, lines 102-122
GenerateDdr(r, result) ==
    /\ handlers[r].pc = "generate"
    /\ IF result.kind = "returned"
       THEN handlers' = Update(r, [pc |-> "render", ddr_report |-> result.report])
       ELSE handlers' = Update(r, [pc |-> "responded", exc |-> result.error,
                                  response |-> ErrorResponse(result.error)] @@ Finally)
    /\ UNCHANGED <<uploads, outputs, clock, req_vars, fn_vars>>

\* lines 90-100 and 120-122: generate_docx names the file after the current
\* second and saves it; the handler returns the report and the file name
RenderDocx(r) ==
    /\ handlers[r].pc = "render"
    /\ outputs' = SetItem(outputs, DocxName(clock), Docx(handlers[r].ddr_report))
    /\ handlers' = Update(r, [pc |-> "responded",
            response |-> [status_code |-> 200,
                          report_data |-> handlers[r].ddr_report,
                          download_file |-> DocxName(clock)]] @@ Finally)
    /\ UNCHANGED <<uploads, clock, req_vars, fn_vars>>

\* GET /download-report with the download_file of the response (lines 125-139)
DownloadReport(r) ==
    /\ handlers[r].pc = "responded"
    /\ handlers[r].response.status_code = 200
    /\ IF handlers[r].response.download_file \in DOMAIN outputs
       THEN handlers' = Update(r, [pc |-> "downloaded",
                                  downloaded |-> outputs[handlers[r].response.download_file]])
       ELSE handlers' = Update(r, [pc |-> "downloaded",
                downloaded |-> HTTPException(404, <<"Requested report file not found.">>)])
    /\ UNCHANGED <<uploads, outputs, clock, req_vars, fn_vars>>

\* a second passes
Tick ==
    /\ clock < MaxClock
    /\ clock' = clock + 1
    /\ UNCHANGED <<uploads, outputs, handlers, req_vars, fn_vars>>

InitEndpoint ==
    /\ RequestIdle
    /\ FunctionIdle
    /\ uploads = <<>>
    /\ outputs = <<>>
    /\ clock = 0
    /\ handlers \in { [r \in Requests |-> Received(r, names[r][1], names[r][2])] :
                          names \in [Requests -> InspectionFileNames \X ThermalFileNames] }

NextEndpoint ==
    \/ \E r \in Requests :
          \/ OpenInspectionUpload(r)
          \/ CopyInspectionUpload(r)
          \/ OpenThermalUpload(r)
          \/ CopyThermalUpload(r)
          \/ ExtractInspection(r)
          \/ ExtractThermal(r)
          \/ \E result \in GenerateOutcomes : GenerateDdr(r, result)
          \/ RenderDocx(r)
          \/ DownloadReport(r)
    \/ Tick

SpecEndpoint == InitEndpoint /\ [][NextEndpoint]_vars

-----------------------------------------------------------------------------
(* Properties of the Value Normalizer *)

\* t is s without its leading and trailing whitespace
IsTrimOf(t, s) ==
    \E i \in 1..(Len(s) + 1) : \E j \in (i - 1)..Len(s) :
        /\ t = SubSeq(s, i, j)
        /\ \A n \in 1..(i - 1) : s[n] \in Whitespace
        /\ \A n \in (j + 1)..Len(s) : s[n] \in Whitespace
        /\ t # <<>> => (t[1] \notin Whitespace /\ t[Len(t)] \notin Whitespace)

\* the alias set as the claims write it
ClaimAliases ==
    { <<>>, <<"n/a">>, <<"na">>, <<"null">>, <<"none">>, <<"unknown">>,
      <<"not", " ", "provided">>, <<"missing">> }

\* the trimmed, lower-cased form of s is an alias
IsAlias(s) == \E t \in ClaimAliases : IsTrimOf(t, Lower(s))

\* C6: normalization is idempotent: normalizing the output of normalization
\* returns that output unchanged, for every generic value.
C6_NormalizeIdempotent ==
    fn_pc = "renormalized" => fn_out[2] = fn_out[1]

\* a mapping nested in a sequence or mapping, holding a padded alias, was
\* normalized twice
C6_Witness ==
    /\ fn_pc = "renormalized"
    /\ fn_in.t = "dict"
    /\ \E k \in DOMAIN fn_in.dict :
          /\ fn_in.dict[k].t = "list"
          /\ \E i \in 1..Len(fn_in.dict[k].list) :
                fn_in.dict[k].list[i] = JStr(<<" ", "N/A", "\n">>)
    /\ fn_out[1] # fn_in

\* out is value with every null and alias string replaced by "Not Available"
\* and every other string replaced by its trimmed form, at every depth
RECURSIVE Canonicalized(_, _)
Canonicalized(value, out) ==
    CASE value.t = "dict" ->
            /\ out.t = "dict"
            /\ DOMAIN out.dict = DOMAIN value.dict
            /\ \A k \in DOMAIN value.dict : Canonicalized(value.dict[k], out.dict[k])
      [] value.t = "list" ->
            /\ out.t = "list"
            /\ Len(out.list) = Len(value.list)
            /\ \A i \in 1..Len(value.list) : Canonicalized(value.list[i], out.list[i])
      [] value.t = "null" -> out = JStr(<<"Not", " ", "Available">>)
      [] value.t = "str" ->
            IF IsAlias(value.str)
            THEN out = JStr(<<"Not", " ", "Available">>)
            ELSE out.t = "str" /\ IsTrimOf(out.str, value.str)
      [] OTHER -> TRUE

\* C7: null and every string whose trimmed, lower-cased form is an alias
\* become exactly "Not Available" as a mapping value, a sequence element or a
\* scalar, at any depth; every other string becomes its trimmed form.
C7_AliasCanonicalization ==
    fn_pc = "normalized" => Canonicalized(fn_in, fn_out[1])

\* the alias "Not Provided" two levels deep, next to a padded string that is
\* kept
C7_Witness ==
    /\ fn_pc = "normalized"
    /\ fn_in = JList(<<JStr(<<" ", "Damp", " ", "noted">>),
                       JDict(W("a") :> JStr(<<"Not", " ", "Provided">>))>>)
    /\ fn_out[1] = JList(<<JStr(<<"Damp", " ", "noted">>),
                           JDict(W("a") :> JStr(<<"Not", " ", "Available">>))>>)

-----------------------------------------------------------------------------
(* Properties of the Schema Coercer *)

\* C8: the coerced document has all 8 top-level keys, Area_Wise_Observations
\* is a mapping of mappings that each hold the 7 sub-fields,
\* Severity_Assessment is a mapping holding the 4 sub-keys, and
\* Missing_or_Unclear_Information is a non-empty sequence.
C8_SchemaShaped ==
    fn_pc = "coerced" =>
        LET doc == fn_out[1]
        IN  /\ doc.t = "dict"
            /\ EXPECTED_TOP_LEVEL_KEYS \subseteq DOMAIN doc.dict
            /\ doc.dict[Area_Wise_Observations].t = "dict"
            /\ \A a \in DOMAIN doc.dict[Area_Wise_Observations].dict :
                  LET entry == doc.dict[Area_Wise_Observations].dict[a]
                  IN  entry.t = "dict" /\ AreaFields \subseteq DOMAIN entry.dict
            /\ doc.dict[Severity_Assessment].t = "dict"
            /\ SeverityFields \subseteq DOMAIN doc.dict[Severity_Assessment].dict
            /\ doc.dict[Missing_or_Unclear_Information].t = "list"
            /\ doc.dict[Missing_or_Unclear_Information].list # <<>>

\* an input without Severity_Assessment and with a non-mapping area entry
\* was coerced, and that entry is now the fully-sentinel observation
C8_Witness ==
    /\ fn_pc = "coerced"
    /\ Severity_Assessment \notin DOMAIN fn_in.dict
    /\ Missing_or_Unclear_Information \notin DOMAIN fn_in.dict
    /\ Area_Wise_Observations \in DOMAIN fn_in.dict
    /\ fn_in.dict[Area_Wise_Observations].t = "dict"
    /\ W("Kitchen") \in DOMAIN fn_in.dict[Area_Wise_Observations].dict
    /\ fn_in.dict[Area_Wise_Observations].dict[W("Kitchen")].t = "list"
    /\ fn_out[1].dict[Area_Wise_Observations].dict[W("Kitchen")]
          = JDict([f \in AreaFields |-> JStr(<<"Not", " ", "Available">>)])

\* a string that is real content or the sentinel
IsContentOrSentinel(v) ==
    v.t = "str" =>
        /\ v.str # <<>>
        /\ \E n \in 1..Len(v.str) : v.str[n] \notin Whitespace
        /\ Lower(v.str) \notin ClaimAliases
        /\ ~IsAlias(v.str)

TextKeys ==
    { Property_Issue_Summary, Probable_Root_Cause, Recommended_Actions,
      Risk_Implications, Additional_Notes }

\* C9: after coercion no string among the five top-level text fields, the 4
\* severity sub-fields, the 7 sub-fields of every area and the items of
\* Missing_or_Unclear_Information is empty, whitespace-only or an alias.
C9_NoBareMissingMarker ==
    fn_pc = "coerced" =>
        LET doc == fn_out[1].dict
            areas == doc[Area_Wise_Observations].dict
            missing == doc[Missing_or_Unclear_Information].list
        IN  /\ \A k \in TextKeys : IsContentOrSentinel(doc[k])
            /\ \A f \in SeverityFields : IsContentOrSentinel(doc[Severity_Assessment].dict[f])
            /\ \A a \in DOMAIN areas : \A f \in AreaFields : IsContentOrSentinel(areas[a].dict[f])
            /\ \A i \in 1..Len(missing) : IsContentOrSentinel(missing[i])

\* aliases and blanks were given as a text field, a severity sub-field and a
\* Missing_or_Unclear_Information item, and came out as the sentinel
C9_Witness ==
    /\ fn_pc = "coerced"
    /\ Property_Issue_Summary \in DOMAIN fn_in.dict
    /\ fn_in.dict[Property_Issue_Summary] = JStr(<<" ", "N/A", " ">>)
    /\ Severity_Assessment \in DOMAIN fn_in.dict
    /\ fn_in.dict[Severity_Assessment].t = "dict"
    /\ reasoning \in DOMAIN fn_in.dict[Severity_Assessment].dict
    /\ fn_in.dict[Severity_Assessment].dict[reasoning] = JStr(<<" ">>)
    /\ Missing_or_Unclear_Information \in DOMAIN fn_in.dict
    /\ fn_in.dict[Missing_or_Unclear_Information].t = "list"
    /\ JStr(W("Unknown")) \in Range(fn_in.dict[Missing_or_Unclear_Information].list)
    /\ fn_out[1].dict[Property_Issue_Summary] = JStr(<<"Not", " ", "Available">>)
    /\ fn_out[1].dict[Severity_Assessment].dict[reasoning] = JStr(<<"Not", " ", "Available">>)
    /\ JStr(W("Unknown")) \notin Range(fn_out[1].dict[Missing_or_Unclear_Information].list)

\* the areas of the input: none when Area_Wise_Observations is absent or is
\* no mapping
InputAreas(data) ==
    IF Area_Wise_Observations \in DOMAIN data.dict
       /\ data.dict[Area_Wise_Observations].t = "dict"
    THEN data.dict[Area_Wise_Observations].dict
    ELSE [k \in {} |-> JNull]

\* field f of the area entry is "Not Available" once the entry is backfilled
\* and normalized
SentinelAfterBackfill(entry, f) ==
    \/ entry.t # "dict"
    \/ f \notin DOMAIN entry.dict
    \/ entry.dict[f].t = "null"
    \/ /\ entry.dict[f].t = "str"
       /\ \/ IsAlias(entry.dict[f].str)
          \/ IsTrimOf(<<"Not", " ", "Available">>, entry.dict[f].str)

IsPlaceholder(entry) ==
    /\ SentinelAfterBackfill(entry, inspection_observation)
    /\ SentinelAfterBackfill(entry, thermal_observation)
    /\ SentinelAfterBackfill(entry, merged_finding)

\* C10: coercion removes the area named "General" exactly when its
\* inspection_observation, thermal_observation and merged_finding are all
\* "Not Available" after backfill and normalization, and keeps every other
\* area entry.
C10_PlaceholderGeneralDropped ==
    fn_pc = "coerced" =>
        LET before == InputAreas(fn_in)
            after == fn_out[1].dict[Area_Wise_Observations].dict
        IN  /\ DOMAIN after \subseteq DOMAIN before
            /\ \A a \in DOMAIN before :
                  a \notin DOMAIN after <=> (a = W("General") /\ IsPlaceholder(before[a]))

\* the only area was a placeholder "General" and the coerced mapping is empty
C10_Witness ==
    /\ fn_pc = "coerced"
    /\ DOMAIN InputAreas(fn_in) = { W("General") }
    /\ InputAreas(fn_in)[W("General")].t = "dict"
    /\ inspection_observation \in DOMAIN InputAreas(fn_in)[W("General")].dict
    /\ fn_out[1].dict[Area_Wise_Observations] = JDict([k \in {} |-> JNull])

-----------------------------------------------------------------------------
(* Specification of one generate_ddr request *)

Chars_ab == <<"a", "b">>

\* longer than MAX_INPUT_CHARS_PER_REPORT
Chars_long == [i \in 1..(MAX_INPUT_CHARS_PER_REPORT + 2) |-> IF i % 2 = 1 THEN "x" ELSE "y"]

\* the text "{thermal_text}{thermal_text}{thermal_text}"
Chars_placeholders == ThermalPlaceholder \o ThermalPlaceholder \o ThermalPlaceholder

InspectionTexts == { Chars_ab, Chars_long, ThermalPlaceholder, Chars_placeholders }

ThermalTexts == { <<"c">>, Chars_long }

\* text inside a Markdown code fence; "FENCE" is the line of three backquotes
Fenced(text) == <<"FENCE", "json", "\n">> \o text \o <<"\n", "FENCE">>

\* the assistant texts the generation service may return
RawResponses ==
    { <<"I", " ", "cannot", " ", "comply">>,
      <<"}", " ", "{">>,
      Text_NotJson,
      Text_TwoSpans,
      Fenced(Text_Partial),
      Text_Severe \o <<"\n">>,
      <<"Here", " ", "it", " ", "is:", "\n">> \o Text_Mold,
      Text_Full,
      Text_OnlyGeneral,
      Fenced(Text_LowerGeneral) }

ChatCompletion(content) ==
    JsonBody(JDict(W("choices") :> JList(<<JDict(W("message") :> JDict(W("content") :> content))>>)))

ErrorBodies ==
    { TextBody(<<"Bad", " ", "Gateway">>),
      JsonBody(JDict(W("error") :> JDict(W("message") :> JStr(<<"Rate", " ", "limited">>)))) }

SuccessBodies ==
    { TextBody(<<"<html>">>),
      JsonBody(JDict(EmptyDict)),
      JsonBody(JDict(W("choices") :> JList(<<>>))),
      ChatCompletion(JNull),
      ChatCompletion(JStr(<<" ", "\n">>)) }
        \cup { ChatCompletion(JStr(raw)) : raw \in RawResponses }

\* everything requests.post may do
HttpOutcomes ==
    { PostRaises("ConnectionError"), PostRaises("Timeout") }
        \cup { Response(status, body) : status \in {400, 401, 403, 429, 500}, body \in ErrorBodies }
        \cup { Response(200, body) : body \in SuccessBodies }
        \cup { Response(204, TextBody(<<>>)) }

Init ==
    /\ api_key_set \in BOOLEAN
    /\ inspection_text \in InspectionTexts
    /\ thermal_text \in ThermalTexts
    /\ pc = "start"
    /\ attempt = 0
    /\ retry_suffix = <<>>
    /\ last_error = NoError
    /\ calls = <<>>
    /\ responses = <<>>
    /\ outcome = Pending
    /\ FunctionIdle
    /\ EndpointIdle

Next ==
    \/ CallOpenRouter
    \/ \E r \in HttpOutcomes : TransportReturns(r)

Spec == Init /\ [][Next]_vars

\* generate_ddr runs to its end without suspending, and requests.post with
\* timeout=120 (line 196) returns or raises
SpecFair ==
    /\ Init
    /\ [][Next]_vars
    /\ WF_vars(CallOpenRouter)
    /\ WF_vars(\E r \in HttpOutcomes : TransportReturns(r))

-----------------------------------------------------------------------------
(* Properties of generate_ddr *)

\* what attempt i ended in: the report, or the exception raised by the
\* transport call or by _parse_and_validate
AttemptResult(i) ==
    LET text == _call_openrouter(responses[i])
    IN  IF text.ok THEN _parse_and_validate(text.value) ELSE text

FatalClasses == {"LLMQuotaExceededError", "LLMAuthError"}

\* extraction failure, JSON parse failure, validation failure
PipelineFailureClasses == {"ValueError", "JSONDecodeError", "ValidationError"}

IsFatal(result) == ~result.ok /\ result.error.cls \in FatalClasses

IsPipelineFailure(result) == ~result.ok /\ result.error.cls \in PipelineFailureClasses

\* a pipeline failure or a generic transport error
IsRecoverableFailure(result) ==
    ~result.ok /\ result.error.cls \in PipelineFailureClasses \cup {"LLMGenerationError"}

\* C1: generate_ddr makes at most two transport calls: exactly one when the
\* first attempt yields a valid Report or raises QuotaExceeded/AuthFailure,
\* exactly two when the first attempt ends in a recoverable failure.
C1_RetryBudget ==
    /\ Len(calls) <= 2
    /\ (pc = "done" /\ Len(responses) >= 1) =>
          /\ (AttemptResult(1).ok \/ IsFatal(AttemptResult(1))) => Len(calls) = 1
          /\ IsRecoverableFailure(AttemptResult(1)) => Len(calls) = 2

\* unparsable text on the first call, a valid document on the second: the
\* request succeeded with two transport calls
C1_Witness ==
    /\ pc = "done"
    /\ Len(calls) = 2
    /\ Len(responses) = 2
    /\ ~AttemptResult(1).ok
    /\ AttemptResult(1).error.cls = "JSONDecodeError"
    /\ AttemptResult(2).ok
    /\ outcome.kind = "returned"

\* C2: a QuotaExceeded or AuthFailure raised by a transport call, on either
\* attempt, is raised by generate_ddr unmodified and no transport call
\* follows it.
C2_FatalPropagatesUnmodified ==
    \A i \in 1..Len(responses) :
        IsFatal(AttemptResult(i)) =>
            /\ pc = "done"
            /\ outcome = [kind |-> "raised", error |-> _call_openrouter(responses[i]).error]
            /\ outcome.error.cls \in FatalClasses
            /\ Len(calls) = i
            /\ Len(responses) = i

\* HTTP 403 on the second call, after a validation failure on the first
C2_Witness ==
    /\ Len(responses) = 2
    /\ responses[2].kind = "response"
    /\ responses[2].status_code = 403
    /\ IsPipelineFailure(AttemptResult(1))
    /\ pc = "done"
    /\ outcome.kind = "raised"
    /\ outcome.error.cls = "LLMAuthError"

\* the corrective suffix as the source writes it
CorrectiveSuffix ==
    <<"\n\nYour previous response was invalid. Return ONLY a valid JSON object with the exact schema.">>

\* C3: the first transport call receives the original prompt with no suffix;
\* after a pipeline failure on the first attempt the one re-invocation
\* receives the original prompt followed by the fixed corrective suffix, the
\* same literal whatever the failure was.
C3_CorrectiveSuffix ==
    /\ Len(calls) >= 1 =>
          /\ calls[1] = base_prompt
          /\ \A n \in 1..Len(calls[1]) : <<calls[1][n]>> # CorrectiveSuffix
    /\ (Len(responses) >= 1 /\ IsPipelineFailure(AttemptResult(1)) /\ pc # "retry") =>
          /\ Len(calls) = 2
          /\ calls[2] = calls[1] \o CorrectiveSuffix

\* the retry after a validation failure was sent, with an inspection text
\* longer than the budget: the second prompt ends with the suffix
C3_Witness ==
    /\ Len(calls) = 2
    /\ Len(responses) = 1
    /\ pc = "awaiting"
    /\ AttemptResult(1).error.cls = "ValidationError"
    /\ inspection_text = Chars_long
    /\ calls[2][Len(calls[2])] = CorrectiveSuffix[1]

\* the location of overall_severity in a ValidationError
OverallSeverityLoc == <<W("Severity_Assessment"), W("overall_severity")>>

\* C4: when both attempts end in a pipeline failure, generate_ddr raises one
\* generation-failed error carrying the detail of the second failure; when
\* that failure is a validation failure the detail names the offending field
\* (overall_severity for the severity "Severe").
C4_TerminalErrorCarriesLastFailure ==
    (/\ pc = "done"
     /\ Len(responses) = 2
     /\ IsPipelineFailure(AttemptResult(1))
     /\ IsPipelineFailure(AttemptResult(2))) =>
        /\ outcome.kind = "raised"
        /\ outcome.error.cls = "LLMGenerationError"
        /\ outcome.error.cause = AttemptResult(2).error
        /\ outcome.error.msg
              = <<"Failed to generate a valid DDR JSON response: ">> \o AttemptResult(2).error.msg
        /\ outcome.error.errors = AttemptResult(2).error.errors
        /\ AttemptResult(2).error.cls = "ValidationError" => outcome.error.errors # {}
        /\ responses[2] = Response(200, ChatCompletion(JStr(Text_Severe \o <<"\n">>))) =>
              \E e \in outcome.error.errors : e.loc = OverallSeverityLoc

\* dampness_type "Mold" on the first attempt, overall_severity "Severe" on the
\* second: the error names overall_severity and not dampness_type
C4_Witness ==
    /\ pc = "done"
    /\ Len(responses) = 2
    /\ responses[2] = Response(200, ChatCompletion(JStr(Text_Severe \o <<"\n">>)))
    /\ AttemptResult(1).error.cls = "ValidationError"
    /\ \E e \in AttemptResult(1).error.errors : e.loc[Len(e.loc)] = W("dampness_type")
    /\ outcome.kind = "raised"
    /\ { e.loc : e \in outcome.error.errors } = { OverallSeverityLoc }

\* a Report that passed the Strict Validator in full
IsValidatedReport(report) ==
    /\ report.t = "dict"
    /\ DOMAIN report.dict = EXPECTED_TOP_LEVEL_KEYS
    /\ ValidationErrors(report.dict) = {}

\* C5: every request ends by returning a Report that passed the Strict
\* Validator, or by raising QuotaExceeded, AuthFailure or the
\* generation-failed/transport error; no other exception escapes, also when
\* the API credential is missing.
C5_ReportOrClassifiedError ==
    pc = "done" =>
        \/ outcome.kind = "returned" /\ IsValidatedReport(outcome.report)
        \/ /\ outcome.kind = "raised"
           /\ outcome.error.cls \in {"LLMQuotaExceededError", "LLMAuthError", "LLMGenerationError"}

\* the areas of a returned Report
ReportAreas(report) == DOMAIN report.dict[Area_Wise_Observations].dict

\* the assistant text is a document whose only area is the placeholder
\* "General" entry
OnlyPlaceholderGeneral(r) == r = Response(200, ChatCompletion(JStr(Text_OnlyGeneral)))

\* C11: when the placeholder "General" entry is the only area of a document,
\* validation rejects the empty Area_Wise_Observations mapping that coercion
\* leaves behind, and no Report with zero areas is ever returned.
C11_NoReportWithZeroAreas ==
    /\ \A i \in 1..Len(responses) :
          OnlyPlaceholderGeneral(responses[i]) =>
              ~AttemptResult(i).ok /\ AttemptResult(i).error.cls = "ValidationError"
    /\ (pc = "done" /\ outcome.kind = "returned") => ReportAreas(outcome.report) # {}

\* a JSON object between the lines of a Markdown json fence; the object holds
\* Property_Issue_Summary = "Damp noted" and no other key
FencedPartial == Response(200, ChatCompletion(JStr(Fenced(Text_Partial))))

-----------------------------------------------------------------------------
(* Properties of the Strict Validator *)

\* the lines of the ValidationError of a result, none when it is a Report
ErrorsOf(result) == IF result.ok THEN {} ELSE result.error.errors

\* the labels the claim lists for a dampness_type component
DampnessLabels ==
    { base \o suffix :
        base \in { <<"Rising", " ", "Damp">>, <<"Penetrating", " ", "Damp">>,
                   <<"Plumbing", " ", "Leakage", " ", "Damp">> },
        suffix \in { <<>>, <<" ", "(Probable)">> } }
        \cup { <<"Not", " ", "Available">> }

\* every comma-separated component, trimmed, is a label up to case
EveryComponentListed(value) ==
    \A i \in 1..Len(Split(value, ",")) :
        \E label \in DampnessLabels : Lower(Strip(Split(value, ",")[i])) = Lower(label)

AreasOf(document) == document.dict[Area_Wise_Observations].dict

DampnessLoc(area) == <<Area_Wise_Observations, area, dampness_type>>

\* the document with the dampness_type of one area replaced
WithDampness(document, area, value) ==
    JDict(SetItem(document.dict, Area_Wise_Observations,
            JDict(SetItem(AreasOf(document), area,
                JDict(SetItem(AreasOf(document)[area].dict, dampness_type, JStr(value)))))))

\* C13: the Validator accepts a dampness_type value exactly when every
\* comma-separated component, trimmed and compared case-insensitively, is
\* Rising Damp, Penetrating Damp or Plumbing Leakage Damp, each optionally
\* followed by " (Probable)", or Not Available; any other component (also an
\* empty one) makes the whole document fail validation.
C13_DampnessVocabulary ==
    fn_pc = "validated" =>
        \A area \in DOMAIN AreasOf(fn_in) :
            LET value == AreasOf(fn_in)[area].dict[dampness_type].str
                named == \E e \in ErrorsOf(fn_out[1]) : e.loc = DampnessLoc(area)
            IN  /\ EveryComponentListed(value) <=> ~named
                /\ ~EveryComponentListed(value) => ~fn_out[1].ok
                /\ (/\ EveryComponentListed(value)
                     /\ model_validate(WithDampness(fn_in, area, NotAvailable)).ok)
                        => fn_out[1].ok

\* the value "Rising Damp," was rejected for its empty second component,
\* and the same document with "Not Available" in its place is accepted
C13_Witness ==
    /\ fn_pc = "validated"
    /\ AreasOf(fn_in)[W("Kitchen")].dict[dampness_type].str = <<"Rising", " ", "Damp", ",">>
    /\ ~fn_out[1].ok
    /\ { e.loc : e \in fn_out[1].error.errors } = { DampnessLoc(W("Kitchen")) }
    /\ model_validate(WithDampness(fn_in, W("Kitchen"), NotAvailable)).ok

\* "rising damp, Penetrating Damp (Probable) " is accepted
DampnessAccepted ==
    /\ fn_pc = "validated"
    /\ AreasOf(fn_in)[W("Kitchen")].dict[dampness_type].str
          = <<"rising", " ", "damp", ",", " ", "Penetrating", " ", "Damp", " ", "(Probable)", " ">>
    /\ fn_out[1].ok

\* the six severities and the four confidence levels as the claim writes them
SeverityValues ==
    { <<"Low">>, <<"Low", " ", "to", " ", "Moderate">>, <<"Moderate">>,
      <<"Moderate", " ", "to", " ", "High">>, <<"High">>, <<"Not", " ", "Available">> }

ConfidenceValues == { <<"High">>, <<"Medium">>, <<"Low">>, <<"Not", " ", "Available">> }

SeverityOf(document) == document.dict[Severity_Assessment].dict[overall_severity].str

ConfidenceOf(document) == document.dict[Severity_Assessment].dict[Confidence_Level].str

UpToCase(s, values) == \E v \in values : Lower(s) = Lower(v)

-----------------------------------------------------------------------------
(* Coercion of valid documents *)

IsStr(v) == v.t = "str"

\* all 8 keys and no other, every container of its type with every sub-field
IsSchemaShaped(document) ==
    /\ document.t = "dict"
    /\ DOMAIN document.dict = EXPECTED_TOP_LEVEL_KEYS
    /\ \A k \in TextKeys : IsStr(document.dict[k])
    /\ document.dict[Area_Wise_Observations].t = "dict"
    /\ \A a \in DOMAIN document.dict[Area_Wise_Observations].dict :
          LET area == document.dict[Area_Wise_Observations].dict[a]
          IN  /\ area.t = "dict"
              /\ AreaFields \subseteq DOMAIN area.dict
              /\ \A f \in DOMAIN area.dict : IsStr(area.dict[f])
    /\ document.dict[Severity_Assessment].t = "dict"
    /\ SeverityFields \subseteq DOMAIN document.dict[Severity_Assessment].dict
    /\ \A f \in DOMAIN document.dict[Severity_Assessment].dict :
          IsStr(document.dict[Severity_Assessment].dict[f])
    /\ document.dict[Missing_or_Unclear_Information].t = "list"
    /\ \A i \in 1..Len(document.dict[Missing_or_Unclear_Information].list) :
          IsStr(document.dict[Missing_or_Unclear_Information].list[i])

\* a schema-shaped document that the Strict Validator accepts
IsValidDocument(document) == IsSchemaShaped(document) /\ model_validate(document).ok

\* C15 (as stated): for every schema-shaped document that the Strict
\* Validator accepts, _coerce_to_schema_shape returns a document equal to its
\* input, and so coercing the output of coercion changes nothing.
C15_CoercionIdentityOnValid ==
    /\ (fn_pc \in {"coerced", "recoerced"} /\ IsValidDocument(fn_in)) => fn_out[1] = fn_in
    /\ (fn_pc = "recoerced" /\ IsValidDocument(fn_out[1])) => fn_out[2] = fn_out[1]

\* every string is trimmed and no alias, and there is no null
IsNormalized(document) == _normalize_missing_markers(document) = document

\* C15 (amended): for every schema-shaped document that the Strict Validator
\* accepts, that the Value Normalizer leaves unchanged and that lists at least
\* one item in Missing_or_Unclear_Information, _coerce_to_schema_shape returns
\* a document equal to its input; and for every parsed object, coercing the
\* output of coercion changes nothing.
C15_CoercionIdentityOnNormalizedValid ==
    /\ (/\ fn_pc \in {"coerced", "recoerced"}
         /\ IsValidDocument(fn_in)
         /\ IsNormalized(fn_in)
         /\ fn_in.dict[Missing_or_Unclear_Information].list # <<>>) => fn_out[1] = fn_in
    /\ fn_pc = "recoerced" => fn_out[2] = fn_out[1]

\* a valid, normalized document came back unchanged, twice
C15_Witness ==
    /\ fn_pc = "recoerced"
    /\ IsValidDocument(fn_in)
    /\ IsNormalized(fn_in)
    /\ fn_in.dict[Missing_or_Unclear_Information].list # <<>>
    /\ fn_out = <<fn_in, fn_in>>

\* a valid document with a padded text and the item "n/a" was rewritten by
\* the first coercion and left alone by the second
ValidDocumentRewritten ==
    /\ fn_pc = "recoerced"
    /\ IsValidDocument(fn_in)
    /\ fn_in.dict[Property_Issue_Summary] = JStr(<<" ", "Damp", " ", "noted">>)
    /\ fn_in.dict[Missing_or_Unclear_Information] = JList(<<JStr(W("n/a"))>>)
    /\ fn_out[1] # fn_in
    /\ fn_out[2] = fn_out[1]

-----------------------------------------------------------------------------
(* Properties of the Payload Extractor *)

\* the text begins with "{" and ends with "}"
IsBraced(t) == t # <<>> /\ t[1] = "{" /\ t[Len(t)] = "}"

\* the positions of the first "{" and of the last "}" after it, when there
\* are such
IsGreedySpan(t, i, j) ==
    /\ i < j
    /\ t[i] = "{"
    /\ t[j] = "}"
    /\ \A n \in 1..(i - 1) : t[n] # "{"
    /\ \A n \in (j + 1)..Len(t) : t[n] # "}"

\* C16: the Payload Extractor returns the whole trimmed text when it begins
\* with "{" and ends with "}"; otherwise the span from the first "{" to the
\* last "}" that follows it; it fails with an extraction error exactly when no
\* "{" is followed later by a "}"; every candidate returned begins with "{"
\* and ends with "}".
C16_PayloadExtraction ==
    fn_pc = "extracted" =>
        LET result == fn_out[1]
        IN  /\ \A i \in 1..(Len(fn_in) + 1) : \A j \in (i - 1)..Len(fn_in) :
                  LET t == SubSeq(fn_in, i, j)
                  IN  IsTrimOf(t, fn_in) =>
                        /\ IsBraced(t) => (result.ok /\ result.value = t)
                        /\ ~IsBraced(t) =>
                              \A a \in 1..Len(t) : \A b \in 1..Len(t) :
                                  IsGreedySpan(t, a, b) =>
                                      (result.ok /\ result.value = SubSeq(t, a, b))
            /\ ~result.ok <=>
                  ~\E a \in 1..Len(fn_in) : \E b \in (a + 1)..Len(fn_in) :
                        fn_in[a] = "{" /\ fn_in[b] = "}"
            /\ ~result.ok => result.error.cls = "ValueError"
            /\ result.ok => IsBraced(result.value)

\* text before and after an object that holds a "}" of its own: the span
\* runs to the last "}"
C16_Witness ==
    /\ fn_pc = "extracted"
    /\ fn_in = <<"x", "{", "}", "}">>
    /\ fn_out[1].ok
    /\ fn_out[1].value = <<"{", "}", "}">>

\* "}" before "{" and no "}" after it: the extraction failed
ExtractionFailed ==
    /\ fn_pc = "extracted"
    /\ fn_in = <<" ", "}", "{", "x">>
    /\ ~fn_out[1].ok

-----------------------------------------------------------------------------
(* Properties of the transport call *)

\* requests.post returned a status below 400 and a JSON body whose
\* choices[0].message.content is a string that is not blank
CarriesText(r) ==
    /\ r.kind = "response"
    /\ r.status_code < 400
    /\ r.body.is_json
    /\ HasContent(r.body.json)
    /\ ContentOf(r.body.json).t = "str"
    /\ \E n \in 1..Len(ContentOf(r.body.json).str) :
          ContentOf(r.body.json).str[n] \notin Whitespace

\* the one class the claim gives to a failure
ClassOf(r) ==
    IF r.kind = "response" /\ r.status_code = 429 THEN "LLMQuotaExceededError"
    ELSE IF r.kind = "response" /\ r.status_code \in {401, 403} THEN "LLMAuthError"
    ELSE "LLMGenerationError"

\* C17: of what requests.post does, HTTP 429 gives QuotaExceeded; HTTP 401
\* or 403 gives AuthFailure; any other status >= 400, a body that is not
\* JSON, a body without choices/message/content, content that is not a
\* non-blank string, and a network or timeout failure give the generic
\* transport error; only a status below 400 with non-blank string content
\* returns text.
C17_TransportClassification ==
    \A i \in 1..Len(responses) :
        LET r == responses[i]
            result == _call_openrouter(r)
        IN  /\ result.ok <=> CarriesText(r)
            /\ result.ok => result.value = ContentOf(r.body.json).str
            /\ ~result.ok => result.error.cls = ClassOf(r)
            /\ (~result.ok /\ i = Len(responses) /\ pc = "done") =>
                  /\ outcome.kind = "raised"
                  /\ ClassOf(r) # "LLMGenerationError" => outcome.error.cls = ClassOf(r)

\* HTTP 500 on the first call and HTTP 429 on the second
C17_Witness ==
    /\ Len(responses) = 2
    /\ responses[1].kind = "response"
    /\ responses[1].status_code = 500
    /\ _call_openrouter(responses[1]).error.cls = "LLMGenerationError"
    /\ responses[2].kind = "response"
    /\ responses[2].status_code = 429
    /\ outcome.kind = "raised"
    /\ outcome.error.cls = "LLMQuotaExceededError"

-----------------------------------------------------------------------------
(* Properties of the prompt *)

\* the template up to, between and after its two placeholders
TemplateParts ==
    << <<"<instructions, schema, validation constraints>", "\n\nInspection Report Text:\n">>,
       <<"\n\nThermal Report Text:\n">>,
       <<"\n">> >>

\* the first n characters of a text, all of them when it has fewer
Prefix(text, n) == [i \in 1..(IF Len(text) < n THEN Len(text) ELSE n) |-> text[i]]

\* the prompt holds the template with one copy of at most the budget of each
\* text in the place of its placeholder
EmbedsEachOnce(prompt, suffix) ==
    prompt = TemplateParts[1] \o Prefix(inspection_text, MAX_INPUT_CHARS_PER_REPORT)
                \o TemplateParts[2] \o Prefix(thermal_text, MAX_INPUT_CHARS_PER_REPORT)
                \o TemplateParts[3] \o suffix

\* template length + twice the budget + length of the corrective suffix
PromptLengthBound ==
    Len(DDR_PROMPT_TEMPLATE) + 2 * MAX_INPUT_CHARS_PER_REPORT + Len(CorrectiveSuffix)

\* the length part of C18 alone
PromptLengthBounded == \A i \in 1..Len(calls) : Len(calls[i]) <= PromptLengthBound

\* C18: for texts of any length and content, every prompt sent to the
\* transport embeds at most the budget of inspection text and at most the
\* budget of thermal text, each exactly once, so the prompt is no longer than
\* the template, twice the budget and the corrective suffix together.
C18_BoundedPrompt ==
    \A i \in 1..Len(calls) :
        /\ EmbedsEachOnce(calls[i], IF i = 1 THEN <<>> ELSE CorrectiveSuffix)
        /\ Len(calls[i]) <= PromptLengthBound

-----------------------------------------------------------------------------
(* The placeholder "General" rule of the Validator on coerced documents *)

PlaceholderGeneralMessage ==
    "Placeholder 'General' area with no valid observations is not allowed."

\* validation of the document fails by the placeholder "General" rule
RejectedAsPlaceholderGeneral(document) ==
    \E e \in ErrorsOf(model_validate(document)) :
        e.loc = <<Area_Wise_Observations>> /\ e.msg = PlaceholderGeneralMessage

\* C19: for every parsed JSON object, the document the Coercer produces is
\* never rejected by the Validator's placeholder "General" rule: the names
\* the Coercer drops cover every name the Validator treats as "General".
C19_PlaceholderRuleNeverFires ==
    fn_pc = "coerced" => ~RejectedAsPlaceholderGeneral(fn_out[1])

-----------------------------------------------------------------------------
(* Properties of concurrent requests *)

\* the evidence prepared from the files the request itself uploaded
OwnEvidence(r) ==
    EvidenceOf(extract_text_from_pdf(handlers[r].inspection_file),
               extract_text_from_pdf(handlers[r].thermal_file))

\* generate_ddr has been called in request r
CalledGenerateDdr(r) ==
    \/ handlers[r].pc \in {"generate", "render", "downloaded"}
    \/ handlers[r].pc = "responded" /\ handlers[r].response.status_code # 400

\* request r was answered with a report and a file name
Answered(r) ==
    handlers[r].pc \in {"responded", "downloaded"} /\ handlers[r].response.status_code = 200

\* C20: for any interleaving of two concurrent /generate-ddr requests, also
\* with the same client-supplied file names and within the same clock
\* second, the evidence text passed to generate_ddr is extracted from the
\* request's own uploads, and the download_file returned to a request names
\* a DOCX rendering of that request's own Report.
C20_RequestsIsolated ==
    \A r \in Requests :
        /\ CalledGenerateDdr(r) =>
              <<handlers[r].inspection_text, handlers[r].thermal_text>> = OwnEvidence(r)
        /\ Answered(r) =>
              /\ handlers[r].response.download_file \in DOMAIN outputs
              /\ outputs[handlers[r].response.download_file] = Docx(handlers[r].ddr_report)
        /\ handlers[r].pc = "downloaded" => handlers[r].downloaded = Docx(handlers[r].ddr_report)

\* the evidence part of C20 alone
OwnEvidencePassed ==
    \A r \in Requests :
        CalledGenerateDdr(r) =>
            <<handlers[r].inspection_text, handlers[r].thermal_text>> = OwnEvidence(r)

\* the download part of C20 alone
OwnDocxDownloaded ==
    \A r \in Requests :
        handlers[r].pc = "downloaded" => handlers[r].downloaded = Docx(handlers[r].ddr_report)

-----------------------------------------------------------------------------
(* Properties of the retry after a transport error *)

\* the transport call of attempt i raised the generic LLMGenerationError
IsGenericTransportError(i) ==
    /\ ~_call_openrouter(responses[i]).ok
    /\ _call_openrouter(responses[i]).error.cls = "LLMGenerationError"

\* C21: a generic transport error on the first attempt (network failure,
\* timeout, a status >= 400 other than 429/401/403, a malformed or blank
\* response) is a recoverable failure: generate_ddr does not end with it, it
\* uses up the one retry, the second transport call carries the corrective
\* suffix, and a recoverable failure of any kind on the second attempt gives
\* the terminal generation-failed error.
C21_TransportErrorIsRecoverable ==
    (Len(responses) >= 1 /\ IsGenericTransportError(1)) =>
        /\ attempt = 1
        /\ retry_suffix = CorrectiveSuffix
        /\ Len(responses) = 1 =>
              /\ pc \in {"retry", "awaiting"}
              /\ outcome = Pending
              /\ last_error = _call_openrouter(responses[1]).error
        /\ pc # "retry" =>
              /\ Len(calls) = 2
              /\ calls[2] = base_prompt \o CorrectiveSuffix
        /\ (Len(responses) = 2 /\ IsRecoverableFailure(AttemptResult(2))) =>
              /\ pc = "done"
              /\ outcome.kind = "raised"
              /\ outcome.error.cls = "LLMGenerationError"
              /\ outcome.error.cause = AttemptResult(2).error
              /\ outcome.error.msg
                    = <<"Failed to generate a valid DDR JSON response: ">>
                          \o AttemptResult(2).error.msg

\* a timeout on the first call and blank assistant content on the second:
\* the request ended with the terminal error after two calls
C21_Witness ==
    /\ Len(responses) = 2
    /\ responses[1] = PostRaises("Timeout")
    /\ responses[2] = Response(200, ChatCompletion(JStr(<<" ", "\n">>)))
    /\ Len(calls) = 2
    /\ calls[2] = base_prompt \o CorrectiveSuffix
    /\ pc = "done"
    /\ outcome.kind = "raised"
    /\ outcome.error.cls = "LLMGenerationError"

\* HTTP 500 on the first call and a valid document on the second: the retry
\* after a transport error returned a Report
RetryAfterTransportErrorSucceeded ==
    /\ Len(responses) = 2
    /\ responses[1].kind = "response"
    /\ responses[1].status_code = 500
    /\ IsGenericTransportError(1)
    /\ pc = "done"
    /\ outcome.kind = "returned"

-----------------------------------------------------------------------------
(* Properties of the HTTP status of /generate-ddr *)

\* the file name ends in ".pdf" as written
EndsInPdf(filename) == filename[Len(filename)] = ".pdf"

\* the file name ends in ".pdf" in any letter case
EndsInPdfAnyCase(filename) == filename[Len(filename)] \in {".pdf", ".PDF", ".Pdf"}

\* the handler of request r has answered
HasResponded(r) == handlers[r].response # NoResponse

\* the one status the claim gives to an exception raised by generate_ddr
StatusOfFailure(cls) ==
    IF cls = "LLMQuotaExceededError" THEN 429
    ELSE IF cls = "LLMAuthError" THEN 401
    ELSE IF cls = "LLMGenerationError" THEN 502
    ELSE 500

\* the paths request r saves its uploads to
UploadPathsOf(r) ==
    { inspection_path(handlers[r].inspection_filename),
      thermal_path(handlers[r].thermal_filename) }

\* the status of an answered request, with EndsPdf as the test of a name
StatusPerOutcome(r, EndsPdf(_)) ==
    LET h == handlers[r]
        rejected == ~EndsPdf(h.inspection_filename) \/ ~EndsPdf(h.thermal_filename)
    IN  HasResponded(r) =>
            /\ h.inspection_closed
            /\ h.thermal_closed
            /\ rejected =>
                  /\ h.response.status_code = 400
                  /\ h.inspection_text = <<>>
                  /\ h.thermal_text = <<>>
                  /\ h.ddr_report = NoValue
                  /\ h.exc = NoError
            /\ (~rejected /\ h.exc = NoError) => h.response.status_code = 200
            /\ (~rejected /\ h.exc # NoError) =>
                  /\ h.response.status_code = StatusOfFailure(h.exc.cls)
                  /\ h.exc.cls \in {"LLMQuotaExceededError", "LLMAuthError"} =>
                        h.response.status_code # 502

\* every saved upload was saved by a request whose names passed the test
SavedOnlyWhenNamed(EndsPdf(_)) ==
    \A path \in DOMAIN uploads :
        \E r \in Requests :
            /\ path \in UploadPathsOf(r)
            /\ handlers[r].pc # "received"
            /\ EndsPdf(handlers[r].inspection_filename)
            /\ EndsPdf(handlers[r].thermal_filename)

\* C22: /generate-ddr maps each outcome to one HTTP status: an upload whose
\* name does not end in .pdf gives 400 before any file is saved or any
\* transport call is made; QuotaExceeded gives 429; AuthFailure gives 401;
\* any other generation failure gives 502; any other exception gives 500;
\* quota and auth failures are never reported as 502, and both upload
\* streams are closed on every path.
C22_StatusPerOutcome ==
    /\ \A r \in Requests : StatusPerOutcome(r, EndsInPdf)
    /\ SavedOnlyWhenNamed(EndsInPdf)

\* C22 with the name test the handler makes: an upload whose name does not
\* end in .pdf in any letter case gives 400 before any file is saved or any
\* transport call is made; the statuses of the other outcomes and the
\* closing of both streams are as C22 states them.
C22_StatusPerOutcomeAnyCase ==
    /\ \A r \in Requests : StatusPerOutcome(r, EndsInPdfAnyCase)
    /\ SavedOnlyWhenNamed(EndsInPdfAnyCase)

\* request 1, with the thermal upload "scan.PDF", got 429 for a quota
\* failure; request 2, with the inspection upload "notes.txt", got 400 and
\* saved nothing; all four streams are closed
C22_Witness ==
    /\ handlers[1].thermal_filename = <<"scan", ".PDF">>
    /\ handlers[1].exc.cls = "LLMQuotaExceededError"
    /\ handlers[1].response.status_code = 429
    /\ handlers[2].inspection_filename = <<"notes", ".txt">>
    /\ handlers[2].response.status_code = 400
    /\ DOMAIN uploads = UploadPathsOf(1)
    /\ \A r \in Requests : handlers[r].inspection_closed /\ handlers[r].thermal_closed

\* the missing API key, a RuntimeError, was reported as 500
OtherExceptionGave500 ==
    \E r \in Requests :
        /\ handlers[r].exc = MissingKeyError
        /\ handlers[r].response.status_code = 500

\* the terminal generation-failed error was reported as 502
GenerationFailureGave502 ==
    \E r \in Requests :
        /\ handlers[r].exc.cls = "LLMGenerationError"
        /\ handlers[r].response.status_code = 502

-----------------------------------------------------------------------------
(* Termination of generate_ddr *)

\* the states of the retry protocol
Attempt0 == attempt = 0 /\ pc \in {"start", "awaiting"}
Attempt1 == attempt = 1 /\ pc \in {"retry", "awaiting"}
Done == pc = "done" /\ outcome.kind = "returned"
Failed == pc = "done" /\ outcome.kind = "raised"

\* C23: when every transport call returns or fails, every generate_ddr
\* request reaches Done (a Report is returned) or Failed (an error is
\* raised); a step from Attempt1 stays in Attempt1 (the call is issued) or
\* ends in Done or Failed, nothing follows Done or Failed, and no execution
\* makes a third transport call.
C23_BoundedTermination ==
    /\ <>(Done \/ Failed)
    /\ [](Attempt0 \/ Attempt1 \/ Done \/ Failed)
    /\ [][Attempt1 => (Attempt1' \/ Done' \/ Failed')]_vars
    /\ [][~(Done \/ Failed)]_vars
    /\ [](Len(calls) <= Attempts /\ attempt < Attempts)

\* text without a JSON object on both attempts: the request went through
\* Attempt1 and ended in Failed after the second call
C23_Witness ==
    /\ Failed
    /\ attempt = 1
    /\ Len(calls) = 2
    /\ Len(responses) = 2
    /\ responses[1] = Response(200, ChatCompletion(JStr(<<"I", " ", "cannot", " ", "comply">>)))
    /\ responses[2] = responses[1]
    /\ outcome.error.cls = "LLMGenerationError"

\* a request in Attempt1 waiting for its second transport call to return
InAttempt1 == Attempt1 /\ pc = "awaiting" /\ Len(calls) = 2 /\ Len(responses) = 1

=============================================================================
